---- MODULE Spec2Model ----
(***************************************************************************)
(* Model of the dbx transaction orchestrator (transactionWithInternal),    *)
(* its context carrier (context.go) and its option set (options).          *)
(*                                                                         *)
(* A behaviour is a sequence of run calls made by caller code: top-level   *)
(* calls and calls made from inside an operation.  The operation is caller *)
(* code, so what it does (execute a statement, call run again, return a    *)
(* value and an error, panic) is chosen nondeterministically; what run     *)
(* does around it is translated from the source.                           *)
(***************************************************************************)
EXTENDS Integers, Sequences, FiniteSets, TLC

\* ------------------------------------------------------------------ bounds
MaxCalls == 3        \* run calls made in one behaviour
MaxDepth == 3        \* depth of the chain of nested run calls
MaxExec  == 1        \* statements executed in one behaviour
MaxStmts == 3        \* statements one operation executes in a row
MaxLayers == 3       \* contexts wrapped around context.Background()
MaxFired == 2        \* cancellations and expired deadlines in one behaviour
MaxSetters == 3      \* options passed to one run call

\* ------------------------------------------------------------- value sets
Threads      == {1}
Procs        == {1, 2}       \* goroutines that call run concurrently
NoErr        == "nil"
BeginErrs    == {"EBegin"}
OpErrs       == {"EOp"}
CommitErrs   == {"ECommit"}
RollbackErrs == {"ERollback"}
StmtErrs     == {"EStmt"}    \* error a statement (ExecContext) returns
Zero         == 0            \* *new(T): the zero value of the result type
Vals         == {1}          \* result an operation returns next to its error; differs from Zero

\* -------------------------------------------------------------- executors
\* The pool executor (Database) and a transaction executor (sql.Tx).
NoExec     == [kind |-> "none", id |-> 0]
DBExec     == [kind |-> "db", id |-> 0]
TxExec(n)  == [kind |-> "tx", id |-> n]

\* executor.(Transactor): the executor offers Commit and Rollback.
IsTransactor(e) == e.kind = "tx"

\* --------------------------------------------------------------- contexts
\* A context is the chain of its layers, root first.  Nil is the nil
\* Context; Background is context.Background().
Nil        == << >>
CtxKey     == "ctxKey"
Background == << [kind |-> "background", id |-> 0, exec |-> NoExec,
                  key |-> "", val |-> Nil, at |-> 0] >>

\* NewContext(parent, exec): &defaultContext{parent, executor}; id is the
\* identity of the allocated carrier.
NewContext(parent, exec, id) ==
    Append(parent, [kind |-> "carrier", id |-> id, exec |-> exec,
                    key |-> "", val |-> Nil, at |-> 0])

\* context.WithValue(ctx, key, val)
WithValue(ctx, key, val) ==
    Append(ctx, [kind |-> "value", id |-> 0, exec |-> NoExec,
                 key |-> key, val |-> val, at |-> 0])

\* context.WithCancel(ctx): id identifies the cancel function returned.
WithCancel(ctx, id) ==
    Append(ctx, [kind |-> "cancel", id |-> id, exec |-> NoExec,
                 key |-> "", val |-> Nil, at |-> 0])

\* context.WithDeadline(ctx, d)
WithDeadline(ctx, id, d) ==
    Append(ctx, [kind |-> "deadline", id |-> id, exec |-> NoExec,
                 key |-> "", val |-> Nil, at |-> d])

\* A key and a value of caller code (context.WithValue(ctx, "test-key", ..)).
UserKey == "test-key"
UserVal == << [kind |-> "data", id |-> 0, exec |-> NoExec,
               key |-> "", val |-> Nil, at |-> 0] >>

\* Variant: the carrier is stored under a key FromContext does not look up.
WithContext_OtherKey(ctx, dbCtx) == WithValue(ctx, UserKey, dbCtx)

\* WithContext(ctx, dbCtx) = context.WithValue(ctx, ctxKey{}, dbCtx)
WithContext(ctx, dbCtx) == WithValue(ctx, CtxKey, dbCtx)

\* Variant: a carrier anywhere beneath the context counts.
Is_Beneath(ctx) == \E p \in 1..Len(ctx) : ctx[p].kind = "carrier"

\* ctx.(Context): the context itself is a carrier.
Is(ctx) == ctx # Nil /\ ctx[Len(ctx)].kind = "carrier"

\* As(ctx): c, ok := ctx.(Context)
As(ctx) == [ctx |-> IF Is(ctx) THEN ctx ELSE Nil, ok |-> Is(ctx)]

\* The context a layer was put on (defaultContext.parent for a carrier).
Parent(ctx) == SubSeq(ctx, 1, Len(ctx) - 1)

RECURSIVE Value(_, _)
\* defaultContext.Value(key)
defaultContextValue(c, key) == Value(Parent(c), key)

\* ctx.Value(key): a value layer answers for its own key, a carrier as
\* defaultContext.Value does, every other layer delegates to its parent.
Value(ctx, key) ==
    IF ctx = Nil THEN Nil
    ELSE LET top == ctx[Len(ctx)] IN
         IF top.kind = "value" /\ top.key = key THEN top.val
         ELSE IF top.kind = "carrier" THEN defaultContextValue(ctx, key)
         ELSE Value(Parent(ctx), key)

\* ctx.Deadline(): no deadline, or the earliest one set on the way up.
NoDeadline == [ok |-> FALSE, at |-> 0]

\* context.Canceled and context.DeadlineExceeded
Canceled         == "context canceled"
DeadlineExceeded == "context deadline exceeded"

RECURSIVE Deadline(_)
\* defaultContext.Deadline()
defaultContextDeadline(c) == Deadline(Parent(c))

Deadline(ctx) ==
    IF ctx = Nil THEN NoDeadline
    ELSE LET top == ctx[Len(ctx)] IN
         IF top.kind = "carrier" THEN defaultContextDeadline(ctx)
         ELSE IF top.kind = "deadline"
              THEN LET pd == Deadline(Parent(ctx)) IN
                   IF pd.ok /\ pd.at <= top.at THEN pd
                   ELSE [ok |-> TRUE, at |-> top.at]
         ELSE Deadline(Parent(ctx))

\* ctx.Err() when the cancel functions and deadlines in f have fired: f is
\* a set of [id, err], one for each cancelling context that was ended by its
\* own cancel function or deadline while its parent was still live.
RECURSIVE Err(_, _)
\* Variant: the carrier does not hand on the parent's error.
defaultContextErr_Nil(c, f) == NoErr

\* defaultContext.Err()
defaultContextErr(c, f) == Err(Parent(c), f)

Err(ctx, f) ==
    IF ctx = Nil THEN NoErr
    ELSE LET top == ctx[Len(ctx)] IN
         IF top.kind = "carrier" THEN defaultContextErr(ctx, f)
         ELSE IF top.kind \in {"cancel", "deadline"} /\ \E r \in f : r.id = top.id
              THEN (CHOOSE r \in f : r.id = top.id).err
         ELSE Err(Parent(ctx), f)

\* ctx.Done() is closed.
RECURSIVE Done(_, _)
\* defaultContext.Done()
defaultContextDone(c, f) == Done(Parent(c), f)

Done(ctx, f) ==
    IF ctx = Nil THEN FALSE
    ELSE LET top == ctx[Len(ctx)] IN
         IF top.kind = "carrier" THEN defaultContextDone(ctx, f)
         ELSE IF top.kind \in {"cancel", "deadline"} /\ \E r \in f : r.id = top.id
              THEN TRUE
         ELSE Done(Parent(ctx), f)

\* defaultContext.Executor()
Executor(dbCtx) == dbCtx[Len(dbCtx)].exec

\* Variant: the carrier nearest to the root of the chain is returned, not
\* the context itself.
FromContext_Outermost(ctx) ==
    IF Is(ctx)
    THEN LET first == CHOOSE p \in 1..Len(ctx) :
                         /\ ctx[p].kind = "carrier"
                         /\ \A q \in 1..(p - 1) : ctx[q].kind # "carrier"
         IN SubSeq(ctx, 1, first)
    ELSE IF Is(Value(ctx, CtxKey)) THEN Value(ctx, CtxKey)
    ELSE Nil

\* Variant: the embedded value is looked up before ctx itself is tested.
FromContext_ValueFirst(ctx) ==
    IF Is(Value(ctx, CtxKey)) THEN Value(ctx, CtxKey)
    ELSE IF Is(ctx) THEN ctx
    ELSE Nil

\* FromContext(ctx)
FromContext(ctx) ==
    IF Is(ctx) THEN ctx
    ELSE IF Is(Value(ctx, CtxKey)) THEN Value(ctx, CtxKey)
    ELSE Nil

\* defaultDatabase.Context(ctx) = NewContext(ctx, d)
DatabaseContext(ctx, id) == NewContext(ctx, DBExec, id)

\* Variant: the creator is asked although the context holds a carrier.
NewContextFrom_AlwaysCreate(ctx, id) == DatabaseContext(ctx, id)

\* NewContextFrom(ctx, input) with input a Database (a ContextCreator).
NewContextFrom(ctx, id) ==
    IF FromContext(ctx) # Nil THEN FromContext(ctx)
    ELSE DatabaseContext(ctx, id)

\* The capability sets (interfaces) NewContextFrom tests its input for, and
\* the beginners caller code passes to run: a Database (a ContextCreator),
\* a bare ContextCreator, a Beginner that is a Transactor, a bare Beginner.
Capabilities == {"ContextCreator", "Database", "Transactor"}
Database     == {"ContextCreator", "Database"}
Beginners    == { Database, {"ContextCreator"}, {"Transactor"}, {} }

\* The beginner itself as an executor, when it is a Transactor.
BeginnerExec == TxExec(0)

\* panic("input must implement ContextCreator, Database, or Transactor")
Misuse == <<"panic">>

\* Variant: the case Transactor is missing from the type switch.
NewContextFromInput_NoTransactor(ctx, input, id) ==
    IF FromContext(ctx) # Nil THEN FromContext(ctx)
    ELSE IF "ContextCreator" \in input THEN DatabaseContext(ctx, id)
    ELSE IF "Database" \in input THEN NewContext(ctx, DBExec, id)
    ELSE Misuse

\* NewContextFrom(ctx, input) for any input: the carrier found in ctx, else
\* the type switch over input (val.Context(ctx) gives a carrier around the
\* pool), else the panic.
NewContextFromInput(ctx, input, id) ==
    IF FromContext(ctx) # Nil THEN FromContext(ctx)
    ELSE IF "ContextCreator" \in input THEN DatabaseContext(ctx, id)
    ELSE IF "Database" \in input THEN NewContext(ctx, DBExec, id)
    ELSE IF "Transactor" \in input THEN NewContext(ctx, BeginnerExec, id)
    ELSE Misuse

\* ---------------------------------------------------------------- options
\* The option sequences a caller passes to run.
\* An Option is the configuration function a With... constructor returns.
WithIsolationLevel(level) == [opt |-> "Isolation", level |-> level, flag |-> FALSE]
WithReadOnly(readOnly)    == [opt |-> "ReadOnly", level |-> 0, flag |-> readOnly]
WithNewTransaction        == [opt |-> "AlwaysCreate", level |-> 0, flag |-> TRUE]

\* sql.LevelDefault, sql.LevelReadCommitted, sql.LevelSerializable
LevelDefault       == 0
LevelReadCommitted == 2
LevelSerializable  == 6
Levels == {LevelDefault, LevelReadCommitted, LevelSerializable}

Setters == { WithIsolationLevel(l) : l \in Levels }
           \cup { WithReadOnly(b) : b \in BOOLEAN } \cup { WithNewTransaction }

SetterSeqs == { << >>, <<WithNewTransaction>> }

DefaultOptions ==
    [Isolation |-> LevelDefault, ReadOnly |-> FALSE, AlwaysCreate |-> FALSE]

\* Variant: WithNewTransaction flips the flag, and WithReadOnly(false)
\* clears it.
ApplySetter_Toggle(opts, s) ==
    CASE s.opt = "AlwaysCreate" -> [opts EXCEPT !.AlwaysCreate = ~opts.AlwaysCreate]
      [] s.opt = "ReadOnly"     ->
           [opts EXCEPT !.ReadOnly = s.flag,
                        !.AlwaysCreate = opts.AlwaysCreate /\ s.flag]
      [] s.opt = "Isolation"    -> [opts EXCEPT !.Isolation = s.level]
      [] OTHER                  -> opts

\* Variant: a field that was set already keeps its first value.
ApplySetter_FirstWins(opts, s) ==
    CASE s.opt = "AlwaysCreate" -> [opts EXCEPT !.AlwaysCreate = TRUE]
      [] s.opt = "ReadOnly"     ->
           IF opts.ReadOnly THEN opts ELSE [opts EXCEPT !.ReadOnly = s.flag]
      [] s.opt = "Isolation"    ->
           IF opts.Isolation # LevelDefault THEN opts
           ELSE [opts EXCEPT !.Isolation = s.level]
      [] OTHER                  -> opts

\* One configuration function applied to the draft.
ApplySetter(opts, s) ==
    CASE s.opt = "AlwaysCreate" -> [opts EXCEPT !.AlwaysCreate = TRUE]
      [] s.opt = "ReadOnly"     -> [opts EXCEPT !.ReadOnly = s.flag]
      [] s.opt = "Isolation"    -> [opts EXCEPT !.Isolation = s.level]
      [] OTHER                  -> opts

RECURSIVE FoldSetters(_, _)
FoldSetters(opts, setters) ==
    IF setters = << >> THEN opts
    ELSE FoldSetters(ApplySetter(opts, Head(setters)), Tail(setters))

newOptions(setters) == FoldSetters(DefaultOptions, setters)


\* ----------------------------------------------- transactionWithInternal
\* Variant: the force-new flag is not consulted.
ResolveCtx_IgnoreNew(opts, ctx, id) == NewContextFrom(ctx, id)

\* Lines 91-103: the carrier found for the context when force-new is not
\* set (retrieve existing or create a new context), else none.
ResolveCtx(opts, ctx, id) ==
    IF ~opts.AlwaysCreate THEN NewContextFrom(ctx, id) ELSE Nil

\* Variant: any executor the resolved carrier holds is adopted, the pool
\* included.
ResolveTx_AnyExecutor(opts, ctx, id) ==
    LET dbCtx == ResolveCtx(opts, ctx, id) IN
    IF dbCtx # Nil /\ Executor(dbCtx) # NoExec THEN Executor(dbCtx)
    ELSE NoExec

\* Lines 94-102: the transaction adopted from the resolved carrier, or
\* NoExec (tx == nil) when its executor is not a Transactor.
ResolveTx(opts, ctx, id) ==
    LET dbCtx == ResolveCtx(opts, ctx, id) IN
    IF dbCtx # Nil /\ IsTransactor(Executor(dbCtx)) THEN Executor(dbCtx)
    ELSE NoExec

\* Variant: a call that sets the read-only flag or an isolation level gets a
\* transaction of its own.
CreatedTx_OnOptions(opts, ctx, id) ==
    \/ ResolveTx(opts, ctx, id) = NoExec
    \/ opts.ReadOnly \/ opts.Isolation # LevelDefault

\* Variant: a transaction is always created, a found one is never adopted.
CreatedTx_Always(opts, ctx, id) == TRUE

\* Line 105-107: this call creates (and owns) the transaction.
CreatedTx(opts, ctx, id) == ResolveTx(opts, ctx, id) = NoExec

\* Variant: BeginTx is called with nil options.
BeginTxOptions_Nil(opts) == [Isolation |-> LevelDefault, ReadOnly |-> FALSE]

\* Line 110: opts.TxOptions, the embedded *sql.TxOptions handed to BeginTx.
BeginTxOptions(opts) == [Isolation |-> opts.Isolation, ReadOnly |-> opts.ReadOnly]

\* Variant: BeginTx is called with a context of its own.
BeginTxContext_Background(ctx) == Background

\* Line 110: the context handed to BeginTx.
BeginTxContext(ctx) == ctx

\* Variant: the begin error is dropped.
BeginFailed_Swallow(beginErr) == [val |-> Zero, err |-> NoErr]

\* Lines 112-114: the return of run when BeginTx failed with beginErr.
BeginFailed(beginErr) == [val |-> Zero, err |-> beginErr]

\* Variant: a new transaction is stored into the carrier that was passed in
\* instead of a new carrier.
OpCtx_InPlace(opts, ctx, id, newTx) ==
    IF CreatedTx(opts, ctx, id)
    THEN IF Is(ctx) THEN [ctx EXCEPT ![Len(ctx)].exec = newTx]
         ELSE NewContext(ctx, newTx, id + 1)
    ELSE ResolveCtx(opts, ctx, id)

\* Lines 117/93: the carrier handed to the operation.
OpCtx(opts, ctx, id, newTx) ==
    IF CreatedTx(opts, ctx, id) THEN NewContext(ctx, newTx, id + 1)
    ELSE ResolveCtx(opts, ctx, id)

\* Variants of lines 120-137, each with one slip.
\* Commit instead of Rollback when the operation failed.
FinishRun_CommitOnError(createdTx, out, err, commitErr, rollbackErr) ==
    IF err # NoErr
    THEN [rollback |-> FALSE, commit |-> createdTx, val |-> Zero, err |-> err]
    ELSE IF createdTx
         THEN IF commitErr # NoErr
              THEN [rollback |-> FALSE, commit |-> TRUE, val |-> Zero, err |-> commitErr]
              ELSE [rollback |-> FALSE, commit |-> TRUE, val |-> out, err |-> NoErr]
         ELSE [rollback |-> FALSE, commit |-> FALSE, val |-> out, err |-> NoErr]

\* Commit on success without testing createdTx.
FinishRun_CommitAlways(createdTx, out, err, commitErr, rollbackErr) ==
    IF err # NoErr
    THEN [rollback |-> createdTx, commit |-> FALSE, val |-> Zero, err |-> err]
    ELSE IF commitErr # NoErr
         THEN [rollback |-> FALSE, commit |-> TRUE, val |-> Zero, err |-> commitErr]
         ELSE [rollback |-> FALSE, commit |-> TRUE, val |-> out, err |-> NoErr]

\* No Rollback when the operation failed.
FinishRun_NoRollback(createdTx, out, err, commitErr, rollbackErr) ==
    IF err # NoErr
    THEN [rollback |-> FALSE, commit |-> FALSE, val |-> Zero, err |-> err]
    ELSE IF createdTx
         THEN IF commitErr # NoErr
              THEN [rollback |-> FALSE, commit |-> TRUE, val |-> Zero, err |-> commitErr]
              ELSE [rollback |-> FALSE, commit |-> TRUE, val |-> out, err |-> NoErr]
         ELSE [rollback |-> FALSE, commit |-> FALSE, val |-> out, err |-> NoErr]

\* The operation's result is returned although Commit failed.
FinishRun_KeepOut(createdTx, out, err, commitErr, rollbackErr) ==
    IF err # NoErr
    THEN [rollback |-> createdTx, commit |-> FALSE, val |-> Zero, err |-> err]
    ELSE IF createdTx
         THEN [rollback |-> FALSE, commit |-> TRUE, val |-> out, err |-> commitErr]
         ELSE [rollback |-> FALSE, commit |-> FALSE, val |-> out, err |-> NoErr]

\* A failed Rollback replaces the operation's error.
FinishRun_SurfaceRollback(createdTx, out, err, commitErr, rollbackErr) ==
    IF err # NoErr
    THEN [rollback |-> createdTx, commit |-> FALSE, val |-> Zero,
          err |-> IF createdTx /\ rollbackErr # NoErr THEN rollbackErr ELSE err]
    ELSE IF createdTx
         THEN IF commitErr # NoErr
              THEN [rollback |-> FALSE, commit |-> TRUE, val |-> Zero, err |-> commitErr]
              ELSE [rollback |-> FALSE, commit |-> TRUE, val |-> out, err |-> NoErr]
         ELSE [rollback |-> FALSE, commit |-> FALSE, val |-> out, err |-> NoErr]

\* Rollback on failure without testing createdTx.
FinishRun_RollbackAlways(createdTx, out, err, commitErr, rollbackErr) ==
    IF err # NoErr
    THEN [rollback |-> TRUE, commit |-> FALSE, val |-> Zero, err |-> err]
    ELSE IF createdTx
         THEN IF commitErr # NoErr
              THEN [rollback |-> FALSE, commit |-> TRUE, val |-> Zero, err |-> commitErr]
              ELSE [rollback |-> FALSE, commit |-> TRUE, val |-> out, err |-> NoErr]
         ELSE [rollback |-> FALSE, commit |-> FALSE, val |-> out, err |-> NoErr]

\* The operation's result is returned together with its error.
FinishRun_KeepValOnErr(createdTx, out, err, commitErr, rollbackErr) ==
    IF err # NoErr
    THEN [rollback |-> createdTx, commit |-> FALSE, val |-> out, err |-> err]
    ELSE IF createdTx
         THEN IF commitErr # NoErr
              THEN [rollback |-> FALSE, commit |-> TRUE, val |-> Zero, err |-> commitErr]
              ELSE [rollback |-> FALSE, commit |-> TRUE, val |-> out, err |-> NoErr]
         ELSE [rollback |-> FALSE, commit |-> FALSE, val |-> out, err |-> NoErr]

\* The operation's result is not handed on when the call succeeds.
FinishRun_DropResult(createdTx, out, err, commitErr, rollbackErr) ==
    IF err # NoErr
    THEN [rollback |-> createdTx, commit |-> FALSE, val |-> Zero, err |-> err]
    ELSE IF createdTx
         THEN IF commitErr # NoErr
              THEN [rollback |-> FALSE, commit |-> TRUE, val |-> Zero, err |-> commitErr]
              ELSE [rollback |-> FALSE, commit |-> TRUE, val |-> Zero, err |-> NoErr]
         ELSE [rollback |-> FALSE, commit |-> FALSE, val |-> Zero, err |-> NoErr]

\* Rollback is called after a failed Commit.
FinishRun_RollbackAfterCommit(createdTx, out, err, commitErr, rollbackErr) ==
    IF err # NoErr
    THEN [rollback |-> createdTx, commit |-> FALSE, val |-> Zero, err |-> err]
    ELSE IF createdTx
         THEN IF commitErr # NoErr
              THEN [rollback |-> TRUE, commit |-> TRUE, val |-> Zero, err |-> commitErr]
              ELSE [rollback |-> FALSE, commit |-> TRUE, val |-> out, err |-> NoErr]
         ELSE [rollback |-> FALSE, commit |-> FALSE, val |-> out, err |-> NoErr]

\* A failed Commit is not reported.
FinishRun_DropCommitErr(createdTx, out, err, commitErr, rollbackErr) ==
    IF err # NoErr
    THEN [rollback |-> createdTx, commit |-> FALSE, val |-> Zero, err |-> err]
    ELSE [rollback |-> FALSE, commit |-> createdTx, val |-> out, err |-> NoErr]

\* Lines 120-137: what run does once the operation returned (out, err):
\* the terminal call it issues and what it returns.  commitErr and
\* rollbackErr are the results the terminal call gives when issued; the
\* result of tx.Rollback() is discarded.
FinishRun(createdTx, out, err, commitErr, rollbackErr) ==
    IF err # NoErr
    THEN [rollback |-> createdTx, commit |-> FALSE, val |-> Zero, err |-> err]
    ELSE IF createdTx
         THEN IF commitErr # NoErr
              THEN [rollback |-> FALSE, commit |-> TRUE, val |-> Zero, err |-> commitErr]
              ELSE [rollback |-> FALSE, commit |-> TRUE, val |-> out, err |-> NoErr]
         ELSE [rollback |-> FALSE, commit |-> FALSE, val |-> out, err |-> NoErr]

\* ------------------------------------------------------------------ state
\* stack:  per thread of control, the run calls whose operation is running
\* last:   the run call that just ended (returned or panicked), until the
\*         next operation is invoked
\* txs:    every transaction begun so far (sql.Tx), by transaction id, with
\*         the terminal calls issued on it during the current top-level call
\* trace:  the calls issued on the beginner and on the transactions since
\*         the current top-level run call started
\* tree:   shape of the current top-level call and the calls nested in it
\* ncalls: number of run calls made so far
\* gctx:   the context caller code has built so far around Background
\* fired:  the cancel functions called and deadlines passed so far
\* oseq:   the options caller code has lined up for its next run call
\* built:  the option set the last run call built, and the one before
VARIABLES stack, last, txs, trace, tree, ncalls, gctx, fired, oseq, built

vars  == <<stack, last, txs, trace, tree, ncalls, gctx, fired, oseq, built>>
tvars == <<stack, last, txs, trace, tree, ncalls>>
cvars == <<gctx, fired>>
ovars == <<oseq, built>>

\* Identity of the carriers call id may allocate (NewContextFrom, NewContext,
\* and the caller's own db.Context for the context it passes in).
CarrierId(id) == 4 * id

\* Variant: the call in progress is kept in one place shared by all
\* threads of control (the call that started last).
Top_Shared(t) ==
    LET tops == { stack[u][Len(stack[u])] :
                  u \in { v \in DOMAIN stack : stack[v] # << >> } }
    IN CHOOSE c \in tops : \A d \in tops : d.id <= c.id

\* The run call whose operation is running on thread of control t (the
\* locals of that activation of transactionWithInternal).
Top(t) == stack[t][Len(stack[t])]

\* A call issued by run call `call`: BeginTx (tx = 0 when it failed), a
\* statement, Commit or Rollback on transaction tx; err is the error a
\* statement returned to the operation.
Event(kind, tx, call, err) == [kind |-> kind, tx |-> tx, call |-> call, err |-> err]

\* The transaction behind executor e is still open (sql.Tx not done).
TxOpen(e) == IsTransactor(e) /\ ~txs[e.id].done

NoCall ==
    [ id |-> 0, parent |-> 0, depth |-> 0, ctx |-> Nil, outerCtx |-> Nil,
      beginner |-> Database, setters |-> << >>,
      opts |-> DefaultOptions, ctxExec |-> NoExec, ctxOpen |-> FALSE,
      createdTx |-> FALSE, tx |-> NoExec, dbCtx |-> Nil, invoked |-> FALSE,
      state |-> "none", beginErr |-> NoErr, sub |-> NoErr, carry |-> NoErr,
      opVal |-> Zero, opErr |-> NoErr, commitErr |-> NoErr,
      rollbackErr |-> NoErr, retVal |-> Zero, retErr |-> NoErr ]

\* Contexts caller code can pass to a top-level call of call id: a plain
\* context, the pool carrier db.Context(ctx), or the carrier it kept from the
\* operation of the call that ended last.
RootContexts(id) ==
    { Background, DatabaseContext(Background, CarrierId(id) + 2) }
    \cup (IF last.invoked THEN {last.dbCtx} ELSE {})

\* Contexts an operation holding carrier c can pass to a nested call.
DerivedContexts(c) ==
    { c }

CallContexts(t, id) ==
    IF stack[t] = << >> THEN RootContexts(id)
    ELSE DerivedContexts(Top(t).dbCtx)

\* Contexts an operation holding carrier c can derive from it for a nested
\* call: the carrier itself, a plain context in which it embedded the
\* carrier, a context with a value and a deadline of its own in which it
\* embedded the carrier, and standard child contexts built on the carrier.
ChildContexts(c, id) ==
    { c, WithContext(Background, c),
      WithContext(WithDeadline(WithValue(Background, UserKey, UserVal), id, 1), c),
      WithValue(c, UserKey, UserVal), WithCancel(c, id), WithDeadline(c, id, 1) }

Init ==
    /\ stack = [t \in Threads |-> << >>]
    /\ last = NoCall
    /\ txs = << >>
    /\ trace = << >>
    /\ tree = [n |-> 0, depth |-> 0, chain |-> FALSE]
    /\ ncalls = 0
    /\ gctx = Background
    /\ fired = {}
    /\ oseq = << >>
    /\ built = [setters |-> << >>, opts |-> DefaultOptions,
                prev |-> DefaultOptions, fresh |-> FALSE]

\* The transactions of earlier top-level calls, as a new top-level call finds
\* them: what stays of a transaction is whether it is done and its options;
\* the bookkeeping of who owned it and which terminal calls it got is kept
\* for the transactions of the current top-level call only.
Settled(ts) ==
    [i \in 1..Len(ts) |->
        [ts[i] EXCEPT !.owner = 0, !.ownerState = "settled", !.commits = 0,
                      !.rollbacks = 0, !.forced = FALSE, !.within = 0,
                      !.ctx = Nil]]

\* The record of a call that has ended is handed to the enclosing operation:
\* sub is the error the nested call that returned last handed up, when that
\* error stems from a failed call that did not own its transaction and every
\* operation in between returned it unchanged.
NoteNested(frames, ended) ==
    IF frames = << >> THEN frames
    ELSE [frames EXCEPT ![Len(frames)].sub = ended.carry]

\* transactionWithInternal(ctx, beginner, op, setters) up to the invocation
\* of op (lines 85-120), or up to its return when BeginTx fails, or up to
\* the panic of NewContextFrom.  beginErr is BeginTx's result.
transactionWithInternal(t, ctx, beginner, setters, beginErr) ==
    LET id      == ncalls + 1
        opts    == newOptions(setters)
        \* lines 94-120, once NewContextFrom has given resolved
        Proceed(resolved) ==
            LET
                misuse  == resolved = Misuse
                \* the beginner is a Transactor and became the carrier's executor
                adopt   == ~misuse /\ resolved # Nil /\ Executor(resolved) = BeginnerExec
                created == ~misuse /\ ~adopt /\ CreatedTx(opts, ctx, CarrierId(id))
                found   == FromContext(ctx)
                newTx   == TxExec(Len(txs) + 1)
                failed  == created /\ beginErr # NoErr
                tx      == IF misuse THEN NoExec
                           ELSE IF adopt THEN BeginnerExec
                           ELSE IF created THEN (IF failed THEN NoExec ELSE newTx)
                           ELSE ResolveTx(opts, ctx, CarrierId(id))
                rec     == [ NoCall EXCEPT
                             !.id        = id,
                             !.parent    = IF stack[t] = << >> THEN 0 ELSE Top(t).id,
                             !.depth     = Len(stack[t]) + 1,
                             !.ctx       = ctx,
                             !.outerCtx  = IF stack[t] = << >> THEN Nil ELSE Top(t).dbCtx,
                             !.beginner  = beginner,
                             !.setters   = setters,
                             !.opts      = opts,
                             !.ctxExec   = IF found = Nil THEN NoExec ELSE Executor(found),
                             !.ctxOpen   = found # Nil /\ TxOpen(Executor(found)),
                             !.createdTx = created,
                             !.tx        = tx,
                             !.dbCtx     = IF failed \/ misuse THEN Nil
                                           ELSE IF adopt THEN resolved
                                           ELSE OpCtx(opts, ctx, CarrierId(id), newTx),
                             !.invoked   = ~failed /\ ~misuse,
                             !.state     = IF misuse THEN "misuse"
                                           ELSE IF failed THEN "returned" ELSE "op",
                             !.beginErr  = IF created THEN beginErr ELSE NoErr,
                             !.retVal    = IF failed THEN BeginFailed(beginErr).val ELSE Zero,
                             !.retErr    = IF failed THEN BeginFailed(beginErr).err ELSE NoErr ]
                top     == stack[t] = << >>
                \* no run call is in progress on any thread of control
                idle    == \A u \in DOMAIN stack : stack[u] = << >>
                base    == IF idle THEN << >> ELSE trace
                \* the transaction of the enclosing operation, when a call whose
                \* operation is still running owns it
                within  == IF ~top /\ \E k \in 1..Len(stack[t]) :
                                       /\ stack[t][k].createdTx
                                       /\ stack[t][k].tx = Executor(Top(t).dbCtx)
                           THEN Executor(Top(t).dbCtx).id ELSE 0
                before  == IF idle THEN Settled(txs) ELSE txs
            IN
            /\ ncalls < MaxCalls
            /\ Len(stack[t]) < MaxDepth
            /\ beginErr # NoErr => created
            /\ ncalls' = id
            /\ stack' = IF misuse THEN [stack EXCEPT ![t] = << >>]
                        ELSE IF failed THEN [stack EXCEPT ![t] = NoteNested(@, rec)]
                        ELSE [stack EXCEPT ![t] = Append(@, rec)]
            /\ last' = IF failed \/ misuse THEN rec ELSE NoCall
            /\ tree' = IF top
                       THEN [n |-> 1, depth |-> 1,
                             chain |-> ~opts.AlwaysCreate /\ ~IsTransactor(rec.ctxExec)]
                       ELSE [n |-> tree.n + 1,
                             depth |-> IF rec.depth > tree.depth THEN rec.depth ELSE tree.depth,
                             chain |-> tree.chain /\ ~opts.AlwaysCreate /\ ctx = Top(t).dbCtx]
            /\ trace' = IF created
                        THEN Append(base, Event("begin", IF failed THEN 0 ELSE newTx.id, id, NoErr))
                        ELSE base
            /\ txs' = IF created /\ ~failed
                      THEN Append(before,
                                  [done |-> FALSE, owner |-> id, ownerState |-> "op",
                                   commits |-> 0, rollbacks |-> 0,
                                   forced |-> opts.AlwaysCreate, within |-> within,
                                   ctx |-> BeginTxContext(ctx),
                                   ReadOnly |-> BeginTxOptions(opts).ReadOnly,
                                   Isolation |-> BeginTxOptions(opts).Isolation])
                      ELSE IF misuse
                      THEN [i \in 1..Len(before) |->
                              IF \E k \in 1..Len(stack[t]) :
                                     stack[t][k].createdTx /\ stack[t][k].tx.id = i
                              THEN [before[i] EXCEPT !.ownerState = "panicked"]
                              ELSE before[i]]
                      ELSE before
            /\ UNCHANGED <<cvars, ovars>>
    IN
    \* lines 91-93: what NewContextFrom gives for this beginner
    Proceed(IF opts.AlwaysCreate THEN Nil
            ELSE NewContextFromInput(ctx, beginner, CarrierId(id)))

\* Caller code on thread t calls Transaction / TransactionWithResult.
Run(t) ==
    \E ctx \in CallContexts(t, ncalls + 1), s \in SetterSeqs,
       e \in {NoErr} \cup BeginErrs : transactionWithInternal(t, ctx, Database, s, e)

\* The running operation executes a statement on its carrier's executor
\* (dbCtx.Executor().ExecContext), which returns err; at most max statements
\* are executed in one top-level call.
ExecContext(t, err, max) ==
    /\ stack[t] # << >>
    /\ Len(SelectSeq(trace, LAMBDA e : e.kind = "exec")) < max
    /\ trace' = Append(trace, Event("exec", Executor(Top(t).dbCtx).id, Top(t).id, err))
    /\ UNCHANGED <<stack, last, txs, tree, ncalls>>
    /\ UNCHANGED <<cvars, ovars>>

\* run never sees the result of a statement, only what the operation
\* returns, which Return chooses freely: here every statement succeeds.
Exec(t) == ExecContext(t, NoErr, MaxExec)

\* The running operation returns (out, err); run finishes (lines 120-137).
\* commitErr / rollbackErr are the results of the terminal call, if issued.
Return(t, out, err, commitErr, rollbackErr) ==
    /\ stack[t] # << >>
    /\ LET c  == Top(t)
           r  == FinishRun(c.createdTx, out, err, commitErr, rollbackErr)
           ended == [c EXCEPT !.state = "returned", !.opVal = out, !.opErr = err,
                              !.commitErr = commitErr, !.rollbackErr = rollbackErr,
                              !.retVal = r.val, !.retErr = r.err,
                              !.carry = IF err # NoErr /\ (~c.createdTx \/ c.sub = err)
                                        THEN err ELSE NoErr]
       IN
       /\ commitErr # NoErr => r.commit
       /\ rollbackErr # NoErr => r.rollback
       /\ last' = ended
       /\ trace' = IF r.rollback THEN Append(trace, Event("rollback", c.tx.id, c.id, NoErr))
                   ELSE IF r.commit THEN Append(trace, Event("commit", c.tx.id, c.id, NoErr))
                   ELSE trace
       /\ txs' = [i \in 1..Len(txs) |->
                    IF c.createdTx /\ i = c.tx.id
                    THEN [txs[i] EXCEPT !.done = r.rollback \/ r.commit \/ @,
                                        !.ownerState = "returned",
                                        !.commits = @ + (IF r.commit THEN 1 ELSE 0),
                                        !.rollbacks = @ + (IF r.rollback THEN 1 ELSE 0)]
                    ELSE IF i = c.tx.id
                    THEN [txs[i] EXCEPT !.done = r.rollback \/ r.commit \/ @,
                                        !.commits = @ + (IF r.commit THEN 1 ELSE 0),
                                        !.rollbacks = @ + (IF r.rollback THEN 1 ELSE 0)]
                    ELSE txs[i]]
       /\ stack' = [stack EXCEPT ![t] = NoteNested(SubSeq(@, 1, Len(@) - 1), ended)]
    /\ UNCHANGED <<tree, ncalls>>
    /\ UNCHANGED <<cvars, ovars>>

\* The running operation panics: run has no deferred call, so the panic
\* unwinds every enclosing run call on this thread of control.
Panic(t) ==
    /\ stack[t] # << >>
    /\ last' = [Top(t) EXCEPT !.state = "panicked"]
    /\ txs' = [i \in 1..Len(txs) |->
                 IF \E k \in 1..Len(stack[t]) :
                        stack[t][k].createdTx /\ stack[t][k].tx.id = i
                 THEN [txs[i] EXCEPT !.ownerState = "panicked"] ELSE txs[i]]
    /\ stack' = [stack EXCEPT ![t] = << >>]
    /\ UNCHANGED <<trace, tree, ncalls>>
    /\ UNCHANGED <<cvars, ovars>>

Next ==
    \/ \E t \in Threads : Run(t)
    \/ \E t \in Threads : Exec(t)
    \/ \E t \in Threads, v \in Vals, e \in {NoErr} \cup OpErrs,
          ce \in {NoErr} \cup CommitErrs, re \in {NoErr} \cup RollbackErrs :
          Return(t, v, e, ce, re)
    \/ \E t \in Threads : Panic(t)

Spec == Init /\ [][Next]_vars

\* ------------------------------------------- one call, several statements
\* Caller code makes top-level calls only (Transaction, no nested call), and
\* the operation executes up to MaxStmts statements, each of which succeeds
\* or fails.
Transaction(t) == stack[t] = << >> /\ Run(t)

ExecStmt(t) == \E e \in {NoErr} \cup StmtErrs : ExecContext(t, e, MaxStmts)

\* Errors the running operation can return: an error of its own, or the
\* error one of its statements returned (if _, e := executor.Exec(..); e !=
\* nil { return e }).
StmtErrors(t) ==
    { trace[p].err : p \in { q \in 1..Len(trace) :
                                /\ trace[q].kind = "exec"
                                /\ stack[t] # << >>
                                /\ trace[q].call = Top(t).id } } \ {NoErr}

OpReturns(t) ==
    \E v \in Vals, e \in {NoErr} \cup OpErrs \cup StmtErrors(t),
       ce \in {NoErr} \cup CommitErrs, re \in {NoErr} \cup RollbackErrs :
       Return(t, v, e, ce, re)

NextStmts ==
    \/ \E t \in Threads : Transaction(t)
    \/ \E t \in Threads : ExecStmt(t)
    \/ \E t \in Threads : OpReturns(t)
    \/ \E t \in Threads : Panic(t)

SpecStmts == Init /\ [][NextStmts]_vars

\* run is synchronous: once the operation was invoked, the calling thread of
\* control goes on to the operation's return and to the terminal call.  An
\* operation that terminates returns eventually.
SpecLive ==
    Init /\ [][NextStmts]_vars /\ \A t \in Threads : WF_vars(OpReturns(t))

\* ------------------------------------------ nested calls, derived contexts
\* As Run, with the nested calls made on any context derived from the
\* carrier the operation received.
RunDerived(t) ==
    \E ctx \in (IF stack[t] = << >> THEN RootContexts(ncalls + 1)
                ELSE ChildContexts(Top(t).dbCtx, CarrierId(ncalls + 1) + 3)),
       s \in SetterSeqs, e \in {NoErr} \cup BeginErrs :
       transactionWithInternal(t, ctx, Database, s, e)

OpEnds(t) ==
    \E v \in Vals, e \in {NoErr} \cup OpErrs,
       ce \in {NoErr} \cup CommitErrs, re \in {NoErr} \cup RollbackErrs :
       Return(t, v, e, ce, re)

NextDerived ==
    \/ \E t \in Threads : RunDerived(t)
    \/ \E t \in Threads : Exec(t)
    \/ \E t \in Threads : OpEnds(t)
    \/ \E t \in Threads : Panic(t)

SpecDerived == Init /\ [][NextDerived]_vars

\* ------------------------------------------------------ concurrent calls
\* Several threads of control call run at the top level, each on a context
\* of its own that carries no transaction.
InitConc ==
    /\ stack = [t \in Procs |-> << >>]
    /\ last = NoCall
    /\ txs = << >>
    /\ trace = << >>
    /\ tree = [n |-> 0, depth |-> 0, chain |-> FALSE]
    /\ ncalls = 0
    /\ gctx = Background
    /\ fired = {}
    /\ oseq = << >>
    /\ built = [setters |-> << >>, opts |-> DefaultOptions,
                prev |-> DefaultOptions, fresh |-> FALSE]

\* The context thread of control t passes: the first a plain context, the
\* others a pool carrier of their own (db.Context(ctx)).
ProcContext(t, id) ==
    IF t = 1 THEN Background ELSE DatabaseContext(Background, CarrierId(id) + 2)

Go(t) ==
    /\ stack[t] = << >>
    /\ \E e \in {NoErr} \cup BeginErrs :
          transactionWithInternal(t, ProcContext(t, ncalls + 1), Database, << >>, e)

NextConc ==
    \/ \E t \in Procs : Go(t)
    \/ \E t \in Procs : Exec(t)
    \/ \E t \in Procs : OpEnds(t)
    \/ \E t \in Procs : Panic(t)

SpecConc == InitConc /\ [][NextConc]_vars

\* ------------------------------------------------------ any beginner
\* Caller code makes top-level calls with any beginner: on a plain context,
\* on a context that embeds a pool carrier, or on the carrier it kept from
\* the call that ended last.
BeginnerContexts(id) ==
    { Background,
      WithContext(Background, DatabaseContext(Background, CarrierId(id) + 2)) }
    \cup (IF last.invoked /\ last.createdTx THEN {last.dbCtx} ELSE {})

TransactionWith(t) ==
    /\ stack[t] = << >>
    /\ \E ctx \in BeginnerContexts(ncalls + 1), b \in Beginners, s \in SetterSeqs,
          e \in {NoErr} \cup BeginErrs : transactionWithInternal(t, ctx, b, s, e)

NextBeginners ==
    \/ \E t \in Threads : TransactionWith(t)
    \/ \E t \in Threads : OpEnds(t)
    \/ \E t \in Threads : Panic(t)

SpecBeginners == Init /\ [][NextBeginners]_vars

\* ------------------------------------------------- calls with options
\* Caller code calls run with isolation-level and read-only options, at the
\* top level on a plain context and from inside an operation on the
\* operation's carrier.
OptionSeqs ==
    { <<WithNewTransaction>>,
      <<WithReadOnly(TRUE)>>,
      <<WithReadOnly(TRUE), WithIsolationLevel(LevelReadCommitted), WithReadOnly(FALSE)>> }

RunOptions(t) ==
    \E s \in OptionSeqs, e \in {NoErr} \cup BeginErrs :
       transactionWithInternal(
           t, IF stack[t] = << >> THEN Background ELSE Top(t).dbCtx, Database, s, e)

\* The running operation returns, and the terminal call run issues succeeds.
OpDone(t) ==
    \E v \in Vals, e \in {NoErr} \cup OpErrs : Return(t, v, e, NoErr, NoErr)

NextOptions ==
    \/ \E t \in Threads : RunOptions(t)
    \/ \E t \in Threads : Exec(t)
    \/ \E t \in Threads : OpDone(t)

SpecOptions == Init /\ [][NextOptions]_vars

\* ------------------------------------------------ one carrier, shared
\* The operation of a top-level call on the first thread of control hands
\* its carrier to other threads of control; each of them, and the operation
\* itself, calls run without force-new on that carrier and executes
\* statements on it.  Nothing orders these steps.
Own(t) ==
    /\ t = 1 /\ stack[t] = << >>
    /\ transactionWithInternal(t, Background, Database, << >>, NoErr)

Share(t) ==
    /\ stack[1] # << >>
    /\ transactionWithInternal(t, stack[1][1].dbCtx, Database, << >>, NoErr)

ExecShared(t) == ExecContext(t, NoErr, MaxStmts)

NextShared ==
    \/ \E t \in Procs : Own(t)
    \/ \E t \in Procs : Share(t)
    \/ \E t \in Procs : ExecShared(t)
    \/ \E t \in Procs : OpDone(t)

SpecShared == InitConc /\ [][NextShared]_vars

\* ------------------------------------------------ the two entry points
\* The first thread of control makes its calls through Transaction, the
\* second through TransactionWithResult; both hand ctx, beginner and
\* options on to transactionWithInternal unchanged.  The second calls at
\* the top level, on a plain context or on the carrier the first one's
\* operation holds; the first also calls from inside its operation.

\* Variant: Transaction returns nil whatever the routine returned.
TransactionReturns_Nil(r) == [err |-> NoErr]

\* Lines 34-39: Transaction discards the value and returns the error.
TransactionReturns(r) == [err |-> r.retErr]

\* Lines 61-63: TransactionWithResult returns what the routine returned.
TransactionWithResultReturns(r) == [val |-> r.retVal, err |-> r.retErr]

\* Lines 34-36: the operation Transaction hands to the routine returns nil
\* next to the error of the caller's operation.
WrapOperation(err) == [out |-> Zero, err |-> err]

EntryContexts(t) ==
    IF t = 1
    THEN (IF stack[1] = << >> THEN {Background} ELSE {Top(1).dbCtx})
    ELSE {Background} \cup (IF stack[1] = << >> THEN {} ELSE {stack[1][1].dbCtx})

CallTransaction(t) ==
    /\ t = 1
    /\ \E ctx \in EntryContexts(t), s \in SetterSeqs, e \in {NoErr} \cup BeginErrs :
          transactionWithInternal(t, ctx, Database, s, e)

CallTransactionWithResult(t) ==
    /\ t = 2 /\ stack[t] = << >>
    /\ \E ctx \in EntryContexts(t), s \in SetterSeqs, e \in {NoErr} \cup BeginErrs :
          transactionWithInternal(t, ctx, Database, s, e)

\* The operation of a Transaction call returns its error.
OperationReturns(t) ==
    /\ t = 1
    /\ \E e \in {NoErr} \cup OpErrs, ce \in {NoErr} \cup CommitErrs :
          Return(t, WrapOperation(e).out, WrapOperation(e).err, ce, NoErr)

\* The operation of a TransactionWithResult call returns a result and an
\* error.
OperationWithResultReturns(t) ==
    /\ t = 2
    /\ \E v \in {Zero} \cup Vals, e \in {NoErr} \cup OpErrs,
          ce \in {NoErr} \cup CommitErrs : Return(t, v, e, ce, NoErr)

NextEntry ==
    \/ \E t \in Procs : CallTransaction(t)
    \/ \E t \in Procs : CallTransactionWithResult(t)
    \/ \E t \in Procs : OperationReturns(t)
    \/ \E t \in Procs : OperationWithResultReturns(t)

SpecEntry == InitConc /\ [][NextEntry]_vars

\* ------------------------------------- the concrete-carrier revision
\* helpers.go: the routine takes a Context and requires it to be the
\* package's own carrier type, which holds the pool (db) and the
\* transaction (tx, nil when there is none).

ErrInvalidContext == "ErrInvalidContext"

\* A Context of another type than *defaultContext (a wrapper, a test
\* double) that answers for what c holds.
OtherContext(c) ==
    Append(c, [kind |-> "other", id |-> 0,
               exec |-> IF c = Nil THEN NoExec ELSE Executor(c),
               key |-> "", val |-> Nil, at |-> 0])

\* Variant: every Context that holds an executor is accepted.
AsDefaultContext_AnyContext(ctx) ==
    LET ok == ctx # Nil /\ Executor(ctx) # NoExec
    IN [dbCtx |-> IF ok THEN ctx ELSE Nil, ok |-> ok]

\* Line 24: dbCtx, ok := ctx.(*defaultContext)
AsDefaultContext(ctx) ==
    LET ok == ctx # Nil /\ ctx[Len(ctx)].kind = "carrier"
    IN [dbCtx |-> IF ok THEN ctx ELSE Nil, ok |-> ok]

\* Line 42, dbCtx.tx: the transaction the carrier holds, NoExec for nil.
CarrierTx(dbCtx) ==
    IF IsTransactor(Executor(dbCtx)) THEN Executor(dbCtx) ELSE NoExec

\* Line 55: FromTx(ctx, tx), a carrier on ctx that holds tx.
FromTx(ctx, tx, id) == NewContext(ctx, tx, id)

\* Lines 55-71: what the routine does once the operation returned
\* (out, err).
FinishConcrete(createdTx, out, err, commitErr, rollbackErr) ==
    IF err # NoErr
    THEN [rollback |-> createdTx, commit |-> FALSE, val |-> Zero, err |-> err]
    ELSE IF createdTx
         THEN IF commitErr # NoErr
              THEN [rollback |-> FALSE, commit |-> TRUE, val |-> Zero, err |-> commitErr]
              ELSE [rollback |-> FALSE, commit |-> TRUE, val |-> out, err |-> NoErr]
         ELSE [rollback |-> FALSE, commit |-> FALSE, val |-> out, err |-> NoErr]

\* Lines 23-55: the routine up to the invocation of op, or up to its return
\* when the context is not the concrete carrier or BeginTx fails.
transactionWithInternalConcrete(t, ctx, setters, beginErr) ==
    LET id      == ncalls + 1
        as      == AsDefaultContext(ctx)
        invalid == ~as.ok
        opts    == newOptions(setters)
        dbTx    == IF invalid THEN NoExec ELSE CarrierTx(as.dbCtx)
        created == ~invalid /\ (opts.AlwaysCreate \/ dbTx = NoExec)
        newTx   == TxExec(Len(txs) + 1)
        failed  == created /\ beginErr # NoErr
        tx      == IF created THEN (IF failed THEN NoExec ELSE newTx) ELSE dbTx
        top     == stack[t] = << >>
        rec     == [ NoCall EXCEPT
                     !.id        = id,
                     !.parent    = IF top THEN 0 ELSE Top(t).id,
                     !.depth     = Len(stack[t]) + 1,
                     !.ctx       = ctx,
                     !.outerCtx  = IF top THEN Nil ELSE Top(t).dbCtx,
                     !.setters   = setters,
                     !.opts      = opts,
                     !.ctxExec   = IF invalid THEN NoExec ELSE Executor(as.dbCtx),
                     !.ctxOpen   = ~invalid /\ TxOpen(Executor(as.dbCtx)),
                     !.createdTx = created,
                     !.tx        = tx,
                     !.dbCtx     = IF failed \/ invalid THEN Nil
                                   ELSE FromTx(ctx, tx, CarrierId(id) + 1),
                     !.invoked   = ~failed /\ ~invalid,
                     !.state     = IF failed \/ invalid THEN "returned" ELSE "op",
                     !.beginErr  = IF created THEN beginErr ELSE NoErr,
                     !.retVal    = Zero,
                     !.retErr    = IF invalid THEN ErrInvalidContext
                                   ELSE IF failed THEN beginErr ELSE NoErr ]
        base    == IF top THEN << >> ELSE trace
        within  == IF ~top /\ \E k \in 1..Len(stack[t]) :
                               /\ stack[t][k].createdTx
                               /\ stack[t][k].tx = Executor(Top(t).dbCtx)
                   THEN Executor(Top(t).dbCtx).id ELSE 0
        before  == IF top THEN Settled(txs) ELSE txs
    IN
    /\ ncalls < MaxCalls
    /\ Len(stack[t]) < MaxDepth
    /\ beginErr # NoErr => created
    /\ ncalls' = id
    /\ stack' = IF failed \/ invalid THEN [stack EXCEPT ![t] = NoteNested(@, rec)]
                ELSE [stack EXCEPT ![t] = Append(@, rec)]
    /\ last' = IF failed \/ invalid THEN rec ELSE NoCall
    /\ tree' = IF top
               THEN [n |-> 1, depth |-> 1,
                     chain |-> ~opts.AlwaysCreate /\ ~IsTransactor(rec.ctxExec)]
               ELSE [n |-> tree.n + 1,
                     depth |-> IF rec.depth > tree.depth THEN rec.depth ELSE tree.depth,
                     chain |-> tree.chain /\ ~opts.AlwaysCreate /\ ctx = Top(t).dbCtx]
    /\ trace' = IF created
                THEN Append(base, Event("begin", IF failed THEN 0 ELSE newTx.id, id, NoErr))
                ELSE base
    /\ txs' = IF created /\ ~failed
              THEN Append(before,
                          [done |-> FALSE, owner |-> id, ownerState |-> "op",
                           commits |-> 0, rollbacks |-> 0,
                           forced |-> opts.AlwaysCreate, within |-> within,
                           ctx |-> ctx,
                           ReadOnly |-> opts.ReadOnly,
                           Isolation |-> opts.Isolation])
              ELSE before
    /\ UNCHANGED <<cvars, ovars>>

\* Contexts the routine is called with: at the top level a pool carrier
\* (db.Context(ctx)) or a Context of another type; from inside an operation
\* the operation's carrier, as it is or wrapped in another type.
ConcreteContexts(t, id) ==
    IF stack[t] = << >>
    THEN { DatabaseContext(Background, CarrierId(id) + 2),
           OtherContext(DatabaseContext(Background, CarrierId(id) + 2)) }
    ELSE { Top(t).dbCtx, OtherContext(Top(t).dbCtx) }

RunConcrete(t) ==
    \E ctx \in ConcreteContexts(t, ncalls + 1), s \in SetterSeqs,
       e \in {NoErr} \cup BeginErrs : transactionWithInternalConcrete(t, ctx, s, e)

\* Lines 55-71: the running operation returns (out, err) and the routine
\* finishes.
ReturnConcrete(t, out, err, commitErr, rollbackErr) ==
    /\ stack[t] # << >>
    /\ LET c  == Top(t)
           r  == FinishConcrete(c.createdTx, out, err, commitErr, rollbackErr)
           ended == [c EXCEPT !.state = "returned", !.opVal = out, !.opErr = err,
                              !.commitErr = commitErr, !.rollbackErr = rollbackErr,
                              !.retVal = r.val, !.retErr = r.err,
                              !.carry = IF err # NoErr /\ (~c.createdTx \/ c.sub = err)
                                        THEN err ELSE NoErr]
       IN
       /\ commitErr # NoErr => r.commit
       /\ rollbackErr # NoErr => r.rollback
       /\ last' = ended
       /\ trace' = IF r.rollback THEN Append(trace, Event("rollback", c.tx.id, c.id, NoErr))
                   ELSE IF r.commit THEN Append(trace, Event("commit", c.tx.id, c.id, NoErr))
                   ELSE trace
       /\ txs' = [i \in 1..Len(txs) |->
                    IF i = c.tx.id
                    THEN [txs[i] EXCEPT !.done = r.rollback \/ r.commit \/ @,
                                        !.ownerState = IF c.createdTx THEN "returned" ELSE @,
                                        !.commits = @ + (IF r.commit THEN 1 ELSE 0),
                                        !.rollbacks = @ + (IF r.rollback THEN 1 ELSE 0)]
                    ELSE txs[i]]
       /\ stack' = [stack EXCEPT ![t] = NoteNested(SubSeq(@, 1, Len(@) - 1), ended)]
    /\ UNCHANGED <<tree, ncalls>>
    /\ UNCHANGED <<cvars, ovars>>

OpReturnsConcrete(t) ==
    \E v \in Vals, e \in {NoErr} \cup OpErrs,
       ce \in {NoErr} \cup CommitErrs, re \in {NoErr} \cup RollbackErrs :
       ReturnConcrete(t, v, e, ce, re)

NextConcrete ==
    \/ \E t \in Threads : RunConcrete(t)
    \/ \E t \in Threads : OpReturnsConcrete(t)

SpecConcrete == Init /\ [][NextConcrete]_vars

\* ------------------------------------------------- building contexts
\* Caller code wraps contexts around context.Background() with the standard
\* library, NewContext and WithContext, calls cancel functions and lets
\* deadlines pass.
Times    == {1, 2}
Carriers == { NewContext(Background, DBExec, 101),
              NewContext(WithValue(Background, UserKey, UserVal), TxExec(1), 102) }

WrapValue ==
    /\ Len(gctx) <= MaxLayers
    /\ gctx' = WithValue(gctx, UserKey, UserVal)
    /\ UNCHANGED <<fired, tvars, ovars>>

WrapCancel ==
    /\ Len(gctx) <= MaxLayers
    /\ gctx' = WithCancel(gctx, Len(gctx) + 1)
    /\ UNCHANGED <<fired, tvars, ovars>>

WrapDeadline ==
    /\ Len(gctx) <= MaxLayers
    /\ \E d \in Times : gctx' = WithDeadline(gctx, Len(gctx) + 1, d)
    /\ UNCHANGED <<fired, tvars, ovars>>

WrapCarrier ==
    /\ Len(gctx) <= MaxLayers
    /\ \E e \in {DBExec, TxExec(1)} : gctx' = NewContext(gctx, e, Len(gctx) + 1)
    /\ UNCHANGED <<fired, tvars, ovars>>

WrapEmbed ==
    /\ Len(gctx) <= MaxLayers
    /\ \E c \in Carriers : gctx' = WithContext(gctx, c)
    /\ UNCHANGED <<fired, tvars, ovars>>

\* The cancel function of layer p is called, or its deadline passes, while
\* the context is live (afterwards both are no-ops).
Cancel ==
    /\ Cardinality(fired) < MaxFired
    /\ \E p \in 2..Len(gctx) :
          /\ gctx[p].kind \in {"cancel", "deadline"}
          /\ Err(SubSeq(gctx, 1, p), fired) = NoErr
          /\ \E e \in {Canceled} \cup
                       (IF gctx[p].kind = "deadline" THEN {DeadlineExceeded} ELSE {}) :
                fired' = fired \cup {[id |-> gctx[p].id, err |-> e]}
    /\ UNCHANGED <<gctx, tvars, ovars>>

NextCtx ==
    \/ WrapValue
    \/ WrapCancel
    \/ WrapDeadline
    \/ WrapCarrier
    \/ WrapEmbed
    \/ Cancel

SpecCtx == Init /\ [][NextCtx]_vars

\* ---------------------------------------------------- building options
\* Caller code lines up options and passes them to a run call, which builds
\* its option set with newOptions (transaction.go line 89).
AddOption ==
    /\ Len(oseq) < MaxSetters
    /\ \E s \in Setters : oseq' = Append(oseq, s)
    /\ built' = [built EXCEPT !.setters = << >>, !.prev = DefaultOptions,
                              !.fresh = FALSE]
    /\ UNCHANGED <<tvars, cvars>>

BuildOptions ==
    /\ built' = [setters |-> oseq, opts |-> newOptions(oseq),
                 prev |-> built.opts, fresh |-> TRUE]
    /\ oseq' = << >>
    /\ UNCHANGED <<tvars, cvars>>

NextOpts ==
    \/ AddOption
    \/ BuildOptions

SpecOpts == Init /\ [][NextOpts]_vars

\* ============================================================ properties
\* The run calls the state knows: those whose operation is running, and the
\* one that ended last.
Frames == UNION { { stack[t][k] : k \in 1..Len(stack[t]) } : t \in DOMAIN stack }
Known  == Frames \cup (IF last.state = "none" THEN {} ELSE {last})

\* Calls of a kind issued by run call c, and those issued on transaction n.
IssuedBy(c, kind) == { p \in 1..Len(trace) : trace[p].kind = kind /\ trace[p].call = c.id }
IssuedOn(n, kinds) == { p \in 1..Len(trace) : trace[p].kind \in kinds /\ trace[p].tx = n }
NBegin(c)    == Cardinality(IssuedBy(c, "begin"))
NCommit(c)   == Cardinality(IssuedBy(c, "commit"))
NRollback(c) == Cardinality(IssuedBy(c, "rollback"))
Terminal     == {"commit", "rollback"}

OpReturned(c) == c.state = "returned" /\ c.invoked

\* What the ownership property asserts of one call.
OwnsOneTx(c) ==
    /\ NBegin(c) = 1
    /\ c.createdTx
    /\ c.invoked => \A p \in IssuedBy(c, "begin") : trace[p].tx = c.tx.id
    /\ NCommit(c) <= 1 /\ NRollback(c) <= 1
    /\ NCommit(c) = 1 <=> (OpReturned(c) /\ c.opErr = NoErr)
    /\ NRollback(c) = 1 <=> (OpReturned(c) /\ c.opErr # NoErr)
    /\ \A p \in IssuedBy(c, "commit") \cup IssuedBy(c, "rollback") : trace[p].tx = c.tx.id

\* C1 (as stated): every run call without force-new on a context that carries
\* no open transaction begins exactly one transaction, commits it iff the
\* operation returned no error and rolls it back iff it returned an error.
C1_Original ==
    \A c \in Known : (~c.opts.AlwaysCreate /\ ~c.ctxOpen) => OwnsOneTx(c)

\* C1 (amended): every run call without force-new on a context that carries
\* no transaction executor at all (neither an open nor a finished one) begins
\* exactly one transaction, commits it iff the operation returned no error
\* and rolls it back iff the operation returned an error.
C1_Ownership ==
    \A c \in Known : (~c.opts.AlwaysCreate /\ ~IsTransactor(c.ctxExec)) => OwnsOneTx(c)

C1_Witness ==
    /\ last.state = "returned" /\ ~last.opts.AlwaysCreate
    /\ ~IsTransactor(last.ctxExec) /\ Is(last.ctx)
    /\ last.opErr = NoErr /\ last.invoked /\ NCommit(last) = 1

\* C2: a run call without force-new whose context is a carrier holding an
\* open transaction T issues no BeginTx, hands its operation that same
\* carrier and executor T (those the enclosing operation saw), and issues
\* neither Commit nor Rollback, whatever its operation returns.
C2_Reuse ==
    \A c \in Known :
        (~c.opts.AlwaysCreate /\ Is(c.ctx) /\ IsTransactor(Executor(c.ctx)) /\ c.ctxOpen)
        => /\ NBegin(c) = 0
           /\ ~c.createdTx
           /\ c.invoked
           /\ c.dbCtx = c.ctx
           /\ Executor(c.dbCtx) = Executor(c.ctx)
           /\ c.tx = Executor(c.ctx)
           /\ (c.parent # 0 /\ c.ctx = c.outerCtx) => c.dbCtx = c.outerCtx
           /\ NCommit(c) = 0 /\ NRollback(c) = 0

C2_Witness ==
    /\ last.state = "returned" /\ ~last.opts.AlwaysCreate /\ last.parent # 0
    /\ last.ctx = last.outerCtx /\ last.ctxOpen /\ last.opErr # NoErr
    /\ last.dbCtx = last.outerCtx

\* C3: in a top-level run call on a context without a transaction whose
\* operation chains run calls without force-new on the carrier received
\* (at least two calls in all), there is exactly one BeginTx, no terminal
\* call while the outermost operation runs and exactly one once it returned.
C3_DepthIndependence ==
    (tree.chain /\ tree.n >= 2) =>
        /\ Cardinality({ p \in 1..Len(trace) : trace[p].kind = "begin" }) = 1
        /\ Cardinality({ p \in 1..Len(trace) : trace[p].kind \in Terminal }) <= 1
        /\ (\E t \in Threads : stack[t] # << >>) =>
               { p \in 1..Len(trace) : trace[p].kind \in Terminal } = {}
        /\ ((\A t \in Threads : stack[t] = << >>) /\ last.state = "returned") =>
               Cardinality({ p \in 1..Len(trace) : trace[p].kind \in Terminal }) = 1

C3_Witness ==
    /\ tree.chain /\ tree.depth = 3
    /\ \A t \in Threads : stack[t] = << >>
    /\ last.state = "returned" /\ last.depth = 1
    /\ Cardinality({ p \in 1..Len(trace) : trace[p].kind \in Terminal }) = 1

\* The call owning transaction n still runs its operation.
OwnerRunning(n) == \E c \in Frames : c.createdTx /\ c.tx.id = n

\* C4: a run call with WithNewTransaction begins its own transaction; when it
\* is made inside the operation of a call whose transaction j is owned by a
\* running call, its BeginTx comes after that of j, its terminal call comes
\* before that of j, and j is open for as long as the inner call runs.
C4_ForceNewIsolation ==
    /\ \A c \in Known : c.opts.AlwaysCreate =>
           /\ c.createdTx /\ NBegin(c) = 1
           /\ c.invoked => /\ txs[c.tx.id].owner = c.id
                           /\ c.outerCtx # Nil => c.tx # Executor(c.outerCtx)
    /\ \A i \in 1..Len(txs) :
           LET j == txs[i].within IN
           (txs[i].forced /\ j # 0 /\ IssuedOn(i, {"begin"}) # {}) =>
               /\ IssuedOn(j, {"begin"}) # {}
               /\ \A p \in IssuedOn(j, {"begin"}), q \in IssuedOn(i, {"begin"}) : p < q
               /\ IssuedOn(j, Terminal) # {} =>
                      /\ IssuedOn(i, Terminal) # {}
                      /\ \A p \in IssuedOn(i, Terminal), q \in IssuedOn(j, Terminal) : p < q
               /\ OwnerRunning(i) => (~txs[j].done /\ IssuedOn(j, Terminal) = {})
               /\ txs[j].done => txs[i].done

C4_Witness ==
    \E i \in 1..Len(txs) :
        /\ txs[i].forced /\ txs[i].within # 0
        /\ IssuedOn(i, Terminal) # {} /\ IssuedOn(txs[i].within, Terminal) # {}
        /\ tree.depth = 3

\* C5: when BeginTx fails with error E, run returns (zero value, E), the
\* operation is not invoked and neither Commit nor Rollback is issued.
C5_BeginFailure ==
    \A c \in Known : c.beginErr # NoErr =>
        /\ c.state = "returned" /\ c \notin Frames
        /\ c.retVal = Zero /\ c.retErr = c.beginErr
        /\ ~c.invoked
        /\ IssuedBy(c, "exec") = {}
        /\ NCommit(c) = 0 /\ NRollback(c) = 0

C5_Witness ==
    /\ last.state = "returned" /\ last.beginErr \in BeginErrs
    /\ last.retErr = last.beginErr /\ last.parent # 0

\* C6: when the operation of an owning call returns (v, nil) and Commit fails
\* with E, run returns (zero value, E).
C6_CommitFailure ==
    (last.state = "returned" /\ last.invoked /\ last.createdTx
        /\ last.opErr = NoErr /\ last.commitErr # NoErr)
    => (last.retVal = Zero /\ last.retErr = last.commitErr /\ NCommit(last) = 1)

C6_Witness ==
    /\ last.state = "returned" /\ last.createdTx /\ last.opErr = NoErr
    /\ last.opVal # Zero /\ last.commitErr \in CommitErrs /\ last.retVal = Zero

\* C7: when the operation of an owning call returns error E, the call issues
\* exactly one Rollback on its transaction and no Commit, and returns E
\* whether the Rollback succeeds or fails.
C7_OperationFailureOwner ==
    (last.state = "returned" /\ last.invoked /\ last.createdTx /\ last.opErr # NoErr)
    => /\ NRollback(last) = 1 /\ NCommit(last) = 0
       /\ \A p \in IssuedBy(last, "rollback") : trace[p].tx = last.tx.id
       /\ txs[last.tx.id].rollbacks = 1 /\ txs[last.tx.id].commits = 0
       /\ last.retErr = last.opErr

C7_Witness ==
    /\ last.state = "returned" /\ last.createdTx /\ last.opErr \in OpErrs
    /\ last.rollbackErr \in RollbackErrs /\ last.retErr = last.opErr

\* C8: when the operation of a call that does not own its transaction
\* returns error E, the call returns E and issues no Commit or Rollback; and
\* when every enclosing operation returns that E in turn, each enclosing
\* call returns E and the one owning the transaction issues exactly one
\* Rollback and no Commit.
C8_OperationFailureNonOwner ==
    /\ (last.state = "returned" /\ last.invoked /\ ~last.createdTx /\ last.opErr # NoErr)
       => /\ last.retErr = last.opErr /\ last.carry = last.opErr
          /\ NCommit(last) = 0 /\ NRollback(last) = 0
    /\ (last.state = "returned" /\ last.carry # NoErr)
       => /\ last.retErr = last.carry
          /\ last.createdTx =>
                 /\ txs[last.tx.id].rollbacks = 1 /\ txs[last.tx.id].commits = 0
                 /\ NRollback(last) = 1

C8_Witness ==
    /\ last.state = "returned" /\ last.depth = 1 /\ last.createdTx
    /\ last.carry \in OpErrs /\ last.retErr = last.carry
    /\ tree.depth = 3 /\ tree.chain

\* C9: if the operation panics during a run call that created a new
\* transaction, that transaction is rolled back.
C9_PanicRollback ==
    \A i \in 1..Len(txs) : txs[i].ownerState = "panicked" => txs[i].rollbacks >= 1

\* C10: whenever run returns an error (begin, operation or commit failure)
\* the result it returns is the zero value, whatever the operation returned.
C10_ZeroOnFailure ==
    \A c \in Known : (c.state = "returned" /\ c.retErr # NoErr) => c.retVal = Zero

C10_Witness ==
    /\ last.state = "returned" /\ last.invoked /\ last.opVal # Zero
    /\ last.opErr \in OpErrs /\ last.retErr = last.opErr /\ last.retVal = Zero

\* C11: when the operation returns (v, nil), run returns (v, nil) with v
\* unchanged: after exactly one successful Commit when the call owns the
\* transaction, and with no Commit (and no Rollback) issued when it does not.
C11_SuccessResult ==
    (last.state = "returned" /\ last.invoked /\ last.opErr = NoErr
        /\ (last.createdTx => last.commitErr = NoErr))
    => /\ last.retVal = last.opVal /\ last.retErr = NoErr
       /\ NRollback(last) = 0
       /\ last.createdTx => (NCommit(last) = 1 /\ txs[last.tx.id].commits = 1)
       /\ ~last.createdTx => NCommit(last) = 0

C11_Witness ==
    /\ last.state = "returned" /\ last.invoked /\ ~last.createdTx
    /\ last.opErr = NoErr /\ last.opVal # Zero /\ last.retVal = last.opVal
    /\ last.parent # 0 /\ NCommit(last) = 0

\* The kinds of the calls in the trace, in the order issued.
Kinds == [p \in 1..Len(trace) |-> trace[p].kind]
Execs == { p \in 1..Len(trace) : trace[p].kind = "exec" }

\* C12: within one owning call the trace is BeginTx, then the statements of
\* the operation on the call's transaction, then (once the operation has
\* returned) exactly one terminal call; no statement comes before the begin
\* or after the terminal call.  Three successful statements give begin,
\* exec, exec, exec, commit; when the third fails and the operation returns
\* its error the trace is begin, exec, exec, exec, rollback and run returns
\* that error.
C12_EventOrdering ==
    \A c \in Known : (c.createdTx /\ c.invoked /\ c.depth = 1 /\ tree.n = 1) =>
        LET n    == Len(trace)
            ends == { p \in 1..n : trace[p].kind \in Terminal }
        IN
        /\ n >= 1 /\ trace[1] = Event("begin", c.tx.id, c.id, NoErr)
        /\ \A p \in 2..n : trace[p].kind # "begin"
        /\ \A p \in Execs : /\ p > 1
                             /\ trace[p].tx = c.tx.id /\ trace[p].call = c.id
                             /\ \A q \in ends : p < q
        /\ c.state = "op" => ends = {}
        /\ c.state = "returned" => (ends = {n} /\ trace[n].tx = c.tx.id)
        /\ (c.state = "returned" /\ c.opErr = NoErr /\ Cardinality(Execs) = 3
                /\ \A p \in Execs : trace[p].err = NoErr)
           => Kinds = <<"begin", "exec", "exec", "exec", "commit">>
        /\ (c.state = "returned" /\ Execs = {2, 3, 4}
                /\ trace[2].err = NoErr /\ trace[3].err = NoErr
                /\ trace[4].err # NoErr /\ c.opErr = trace[4].err)
           => /\ Kinds = <<"begin", "exec", "exec", "exec", "rollback">>
              /\ c.retErr = trace[4].err

C12_Witness ==
    /\ last.state = "returned" /\ last.createdTx /\ Len(trace) = 5
    /\ Kinds = <<"begin", "exec", "exec", "exec", "rollback">>
    /\ trace[2].err = NoErr /\ trace[3].err = NoErr
    /\ trace[4].err \in StmtErrs /\ last.retErr = trace[4].err

\* ctx was made from carrier c by the standard library alone (added values,
\* cancellations, deadlines), or by embedding c with WithContext.
StdLayers == {"value", "cancel", "deadline"}
IsChildOf(ctx, c) ==
    /\ Len(ctx) >= Len(c) /\ SubSeq(ctx, 1, Len(c)) = c
    /\ \A p \in (Len(c) + 1)..Len(ctx) :
           ctx[p].kind \in StdLayers /\ ctx[p].key # CtxKey
IsEmbeddingOf(ctx, c) ==
    ctx # Nil /\ ctx[Len(ctx)].kind = "value" /\ ctx[Len(ctx)].key = CtxKey
              /\ ctx[Len(ctx)].val = c
DerivedFrom(ctx, c) == IsChildOf(ctx, c) \/ IsEmbeddingOf(ctx, c)

\* C13: a run call without force-new, made inside an operation on any
\* context derived from the operation's carrier (the carrier, an embedding
\* of it, a standard child context of it) while the carrier holds an open
\* transaction T, issues no BeginTx, runs on T and issues no terminal call.
C13_DerivedDetection ==
    \A c \in Known :
        (c.parent # 0 /\ ~c.opts.AlwaysCreate /\ DerivedFrom(c.ctx, c.outerCtx)
            /\ TxOpen(Executor(c.outerCtx)))
        => /\ ~c.createdTx /\ NBegin(c) = 0
           /\ c.tx = Executor(c.outerCtx)
           /\ NCommit(c) = 0 /\ NRollback(c) = 0

\* C14: a transaction i begun with WithNewTransaction inside the operation
\* of a call owning transaction j has an outcome of its own.  Its terminal
\* call is issued by its own call only; once committed it is never rolled
\* back, also when the outer operation fails afterwards and j is rolled
\* back; when the inner operation fails, i alone is rolled back and j gets
\* no terminal call until its owner returns and is then committed if the
\* outer operation returns no error.
C14_IndependentOutcome ==
    \A i \in 1..Len(txs) :
        LET j == txs[i].within IN
        (txs[i].forced /\ j # 0) =>
            /\ txs[i].commits + txs[i].rollbacks <= 1
            /\ \A p \in IssuedOn(i, Terminal) : trace[p].call = txs[i].owner
            /\ \A p \in IssuedOn(j, Terminal) : trace[p].call = txs[j].owner
            /\ txs[i].commits = 1 => IssuedOn(i, {"rollback"}) = {}
            /\ (last.state = "returned" /\ last.invoked /\ last.id = txs[i].owner) =>
                   /\ last.opErr # NoErr =>
                          (txs[i].rollbacks = 1 /\ IssuedOn(i, {"commit"}) = {})
                   /\ last.opErr = NoErr =>
                          (txs[i].commits = 1 /\ IssuedOn(i, {"rollback"}) = {})
                   /\ IssuedOn(j, Terminal) = {} /\ ~txs[j].done
            /\ (last.state = "returned" /\ last.invoked /\ last.id = txs[j].owner) =>
                   /\ last.opErr # NoErr =>
                          (txs[j].rollbacks = 1 /\ txs[j].commits = 0)
                   /\ last.opErr = NoErr =>
                          (txs[j].commits = 1 /\ txs[j].rollbacks = 0)
                   /\ txs[i].ownerState = "returned" =>
                          Cardinality(IssuedOn(i, Terminal)) = 1

\* The inner transaction was committed, the outer operation failed later.
C14_Witness ==
    \E i \in 1..Len(txs) :
        /\ txs[i].forced /\ txs[i].within # 0
        /\ txs[i].commits = 1 /\ txs[i].rollbacks = 0
        /\ txs[txs[i].within].rollbacks = 1
        /\ last.state = "returned" /\ last.id = txs[txs[i].within].owner
        /\ last.opErr \in OpErrs

\* C15: run returns a nil error iff BeginTx (when issued) succeeded, the
\* operation returned no error and the call did not own the transaction or
\* Commit succeeded; otherwise it returns exactly the begin error, the
\* operation's error or the commit error.  A rollback error is never
\* returned.
C15_ErrorCharacterisation ==
    \A c \in Known : c.state = "returned" =>
        /\ c.retErr = NoErr <=>
               /\ c.beginErr = NoErr
               /\ c.opErr = NoErr
               /\ (~c.createdTx \/ c.commitErr = NoErr)
        /\ c.beginErr # NoErr => c.retErr = c.beginErr
        /\ (c.invoked /\ c.opErr # NoErr) => c.retErr = c.opErr
        /\ (c.invoked /\ c.opErr = NoErr /\ c.createdTx /\ c.commitErr # NoErr)
               => c.retErr = c.commitErr
        /\ c.retErr \in {NoErr, c.beginErr, c.opErr, c.commitErr}
        /\ c.retErr \notin RollbackErrs

C15_Witness ==
    /\ last.state = "returned" /\ last.invoked /\ last.parent # 0
    /\ last.createdTx /\ last.opErr = NoErr
    /\ last.commitErr \in CommitErrs /\ last.retErr = last.commitErr

\* The WithContext layers of a context, and the carrier of the topmost one.
Embeddings(ctx) ==
    { p \in 1..Len(ctx) : ctx[p].kind = "value" /\ ctx[p].key = CtxKey }
MostRecentEmbedded(ctx) ==
    IF Embeddings(ctx) = {} THEN Nil
    ELSE ctx[CHOOSE p \in Embeddings(ctx) : \A q \in Embeddings(ctx) : q <= p].val

\* C16: FromContext(ctx) is ctx itself when ctx is a carrier (whatever is
\* embedded beneath it), otherwise the carrier most recently embedded with
\* WithContext on the way up from the root, otherwise nil.
C16_ExtractionOrder ==
    /\ Is(gctx) => FromContext(gctx) = gctx
    /\ (~Is(gctx) /\ Embeddings(gctx) # {}) =>
           (FromContext(gctx) = MostRecentEmbedded(gctx) /\ FromContext(gctx) \in Carriers)
    /\ (~Is(gctx) /\ Embeddings(gctx) = {}) => FromContext(gctx) = Nil

\* A carrier built over a context that embeds a different carrier.
C16_Witness ==
    /\ Is(gctx) /\ Embeddings(gctx) # {}
    /\ MostRecentEmbedded(gctx) # gctx /\ FromContext(gctx) = gctx

\* C17: for the context built so far and every carrier c (the context itself
\* when it is a carrier included), FromContext(WithContext(ctx, c)) = c,
\* whatever ctx is or embeds already; WithContext returns a new context on
\* top of ctx, and FromContext of ctx is what it was.
C17_EmbedExtractRoundTrip ==
    \A c \in Carriers \cup (IF Is(gctx) THEN {gctx} ELSE {}) :
        LET e == WithContext(gctx, c) IN
        /\ FromContext(e) = c
        /\ e # gctx /\ Parent(e) = gctx
        /\ FromContext(Parent(e)) = FromContext(gctx)

\* The context is a carrier, or embeds one, and a different carrier is
\* embedded on top of it.
C17_Witness ==
    /\ Len(gctx) >= 3 /\ IsEmbeddingOf(gctx, gctx[Len(gctx)].val)
    /\ FromContext(Parent(gctx)) # Nil
    /\ FromContext(Parent(gctx)) # gctx[Len(gctx)].val
    /\ FromContext(gctx) = gctx[Len(gctx)].val
    /\ \E c \in Carriers : c # FromContext(gctx) /\ FromContext(WithContext(gctx, c)) = c

\* Identity of the carrier the creator allocates when it is asked.
FreshId == 200

\* C18: NewContextFrom(ctx, db) is exactly FromContext(ctx) when that is not
\* nil, and the creator is not invoked (no carrier is allocated); otherwise
\* it is a new carrier whose parent is ctx and whose executor is the pool.
C18_Resolve ==
    LET r == NewContextFrom(gctx, FreshId) IN
    /\ FromContext(gctx) # Nil =>
           /\ r = FromContext(gctx)
           /\ \A p \in 1..Len(r) : r[p].id # FreshId
    /\ FromContext(gctx) = Nil =>
           /\ Is(r) /\ r[Len(r)].id = FreshId
           /\ Parent(r) = gctx
           /\ Executor(r) = DBExec /\ ~IsTransactor(Executor(r))

\* A carrier is embedded beneath standard child contexts and is found.
C18_Witness ==
    /\ ~Is(gctx) /\ FromContext(gctx) \in Carriers
    /\ ~IsEmbeddingOf(gctx, FromContext(gctx))
    /\ NewContextFrom(gctx, FreshId) = FromContext(gctx)

\* Keys looked up on a context: the caller's key, the package's own key and
\* a key nobody set.
Keys == {UserKey, CtxKey, "nonexistent-key"}

\* Deadline, Done, Err and Value(k) give the same on c as on p.
SameAsParent(c, p) ==
    /\ Deadline(c) = Deadline(p)
    /\ Done(c, fired) = Done(p, fired)
    /\ Err(c, fired) = Err(p, fired)
    /\ \A k \in Keys : Value(c, k) = Value(p, k)

\* C19: in every state, before and after cancel functions were called and
\* deadlines passed, Deadline, Done, Err and Value(k) on a carrier built by
\* NewContext(parent, e) equal those on parent, and the carrier's Executor()
\* is e: for a carrier built now on the context, and for the context itself
\* when it is a carrier built earlier.
C19_Delegation ==
    /\ \A e \in {DBExec, TxExec(1)} :
           LET c == NewContext(gctx, e, FreshId) IN
           SameAsParent(c, gctx) /\ Executor(c) = e /\ Parent(c) = gctx
    /\ Is(gctx) => SameAsParent(gctx, Parent(gctx))

\* A carrier whose parent has a deadline and a value and was cancelled.
C19_Witness ==
    /\ Is(gctx) /\ Deadline(gctx).ok /\ Value(gctx, UserKey) = UserVal
    /\ Done(gctx, fired) /\ Err(gctx, fired) \in {Canceled, DeadlineExceeded}
    /\ Err(Parent(gctx), fired) = Err(gctx, fired)

\* The carriers (defaultContext values, by identity) the known calls hold:
\* in the context passed in, in the carrier handed to the operation and in
\* the carrier of the enclosing operation.
CarriersOf(ctx) == { ctx[p] : p \in { q \in 1..Len(ctx) : ctx[q].kind = "carrier" } }
KnownCarriers ==
    UNION { CarriersOf(c.ctx) \cup CarriersOf(c.dbCtx) \cup CarriersOf(c.outerCtx)
            : c \in Known }

\* C20: a carrier exposes the executor given at construction for its whole
\* life: whoever holds a carrier sees one executor for it; the carrier of a
\* running operation exposes the transaction of its call, also after a
\* nested force-new call has returned; and after a run call returned, the
\* carrier found in the context passed in exposes the executor it had when
\* the call was made.
C20_CarrierImmutability ==
    /\ \A x, y \in KnownCarriers : x.id = y.id => x.exec = y.exec
    /\ \A c \in Frames : Executor(c.dbCtx) = c.tx
    /\ \A t \in Threads :
           (stack[t] # << >> /\ last.state = "returned" /\ last.parent = Top(t).id) =>
               /\ last.outerCtx = Top(t).dbCtx
               /\ Executor(Top(t).dbCtx) = Top(t).tx
               /\ (last.invoked /\ last.opts.AlwaysCreate) => last.tx # Top(t).tx
    /\ \A c \in Known :
           (c.state = "returned" /\ FromContext(c.ctx) # Nil) =>
               Executor(FromContext(c.ctx)) = c.ctxExec

\* A nested force-new call made on the operation's carrier has returned.
C20_Witness ==
    \E t \in Threads :
        /\ stack[t] # << >> /\ last.state = "returned" /\ last.invoked
        /\ last.parent = Top(t).id /\ last.opts.AlwaysCreate
        /\ last.ctx = Top(t).dbCtx /\ txs[last.tx.id].done
        /\ IsTransactor(Top(t).tx) /\ Executor(Top(t).dbCtx) = Top(t).tx
        /\ last.tx # Top(t).tx

\* The positions of a sequence of options that set a field, and the field
\* values last written.
Writes(seq, field) == { p \in 1..Len(seq) : seq[p].opt = field }
LastWrite(seq, field) == CHOOSE p \in Writes(seq, field) : \A q \in Writes(seq, field) : q <= p
LastWriterWins(seq) ==
    [ Isolation    |-> IF Writes(seq, "Isolation") = {} THEN LevelDefault
                       ELSE seq[LastWrite(seq, "Isolation")].level,
      ReadOnly     |-> IF Writes(seq, "ReadOnly") = {} THEN FALSE
                       ELSE seq[LastWrite(seq, "ReadOnly")].flag,
      AlwaysCreate |-> Writes(seq, "AlwaysCreate") # {} ]

\* C21: for every option sequence newOptions gives, per field, the value of
\* the last option that sets the field (the default when none does); two
\* adjacent options on different fields can be swapped; and the option set
\* a run call builds depends on its own options only, not on the option set
\* built by the call before.
C21_OptionFolding ==
    /\ newOptions(oseq) = LastWriterWins(oseq)
    /\ \A a, b \in Setters : a.opt # b.opt =>
           newOptions(oseq \o <<a, b>>) = newOptions(oseq \o <<b, a>>)
    /\ built.fresh => built.opts = LastWriterWins(built.setters)

\* A call that sets the isolation level twice and the read-only flag, made
\* after a call that built other options.
C21_Witness ==
    /\ built.fresh /\ Len(built.setters) = 3
    /\ Cardinality(Writes(built.setters, "Isolation")) = 2
    /\ built.setters[1].level # built.setters[3].level
    /\ built.opts.Isolation = built.setters[3].level
    /\ built.prev # DefaultOptions /\ built.prev.Isolation # built.opts.Isolation

\* As gives (ctx, true) where Is is true and (nil, false) elsewhere.
AsFollowsIs(ctx) ==
    /\ As(ctx).ok = Is(ctx)
    /\ As(ctx).ctx = (IF Is(ctx) THEN ctx ELSE Nil)

C23_ConcurrentCalls ==
    /\ \A c \in Frames :
           /\ c.createdTx /\ NBegin(c) = 1
           /\ Executor(c.dbCtx) = c.tx /\ txs[c.tx.id].owner = c.id
           /\ ~txs[c.tx.id].done /\ IssuedOn(c.tx.id, Terminal) = {}
           /\ txs[c.tx.id].ownerState = "op"
    /\ \A c, d \in Frames : c.id # d.id => (c.tx # d.tx /\ c.dbCtx # d.dbCtx)
    /\ \A t \in DOMAIN stack : Len(stack[t]) <= 1
    /\ \A p \in 1..Len(trace) :
           trace[p].kind \in Terminal \cup {"exec"} =>
               /\ txs[trace[p].tx].owner = trace[p].call
               /\ \E q \in 1..(p - 1) : trace[q] = Event("begin", trace[p].tx, trace[p].call, NoErr)
    /\ \A i \in 1..Len(txs) : Cardinality(IssuedOn(i, Terminal)) <= 1
    /\ (last.state = "returned" /\ last.invoked) =>
           /\ last.createdTx /\ txs[last.tx.id].done
           /\ txs[last.tx.id].commits + txs[last.tx.id].rollbacks = 1
           /\ last.retErr = (IF last.opErr # NoErr THEN last.opErr ELSE last.commitErr)
           /\ last.retVal = (IF last.retErr = NoErr THEN last.opVal ELSE Zero)
           /\ txs[last.tx.id].commits = 1 <=> last.opErr = NoErr

\* A call that started after another one committed while that one's
\* operation is still running and has executed a statement.
C23_Witness ==
    \E t \in DOMAIN stack :
        /\ stack[t] # << >> /\ last.state = "returned" /\ last.invoked
        /\ last.id > Top(t).id /\ txs[last.tx.id].commits = 1
        /\ ~txs[Top(t).tx.id].done
        /\ \E p \in 1..Len(trace) : trace[p].kind = "exec" /\ trace[p].call = Top(t).id

\* The call is a misuse: force-new is not set, the context carries no
\* carrier and the beginner has none of the three capabilities.
IsMisuse(c) ==
    /\ ~c.opts.AlwaysCreate
    /\ FromContext(c.ctx) = Nil
    /\ c.beginner \cap Capabilities = {}

\* C24: a run call ends in the panic of NewContextFrom exactly when
\* force-new is not set, the context carries no carrier and the beginner
\* implements none of ContextCreator, Database, Transactor; the panic comes
\* before any BeginTx and before the operation is invoked; every other call
\* (a bare Beginner with WithNewTransaction or on a context with a carrier
\* included) gets to BeginTx or to its operation.
C24_MisusePanic ==
    \A c \in Known :
        /\ c.state = "misuse" <=> IsMisuse(c)
        /\ c.state = "misuse" =>
               /\ ~c.invoked /\ c.tx = NoExec /\ c.dbCtx = Nil /\ ~c.createdTx
               /\ IssuedBy(c, "begin") = {} /\ IssuedBy(c, "exec") = {}
        /\ ~IsMisuse(c) => (c.invoked \/ (c.state = "returned" /\ NBegin(c) = 1))
        /\ (c.beginner = {} /\ ~IsMisuse(c) /\ c.invoked) =>
               (c.createdTx \/ c.tx = c.ctxExec)

\* A call with a bare Beginner on a plain context has panicked, after an
\* earlier call began a transaction and ended it.
C24_Witness ==
    /\ last.state = "misuse" /\ last.beginner = {} /\ last.id > 1
    /\ last.ctx = Background /\ trace = << >>
    /\ \E i \in 1..Len(txs) : txs[i].done

\* The call began a transaction of its own and (when BeginTx succeeded)
\* handed its operation a carrier allocated by this call, built on the
\* context passed in, whose executor is the new transaction.
BeganNew(c) ==
    /\ c.createdTx /\ NBegin(c) = 1
    /\ c.invoked =>
           /\ IsTransactor(c.tx) /\ c.tx # c.ctxExec /\ c.tx # DBExec
           /\ \A p \in IssuedBy(c, "begin") : trace[p].tx = c.tx.id
           /\ Is(c.dbCtx) /\ Executor(c.dbCtx) = c.tx /\ Parent(c.dbCtx) = c.ctx
           /\ c.dbCtx # FromContext(c.ctx)
           /\ \A x \in CarriersOf(c.ctx) : x.id # c.dbCtx[Len(c.dbCtx)].id

\* C25: without force-new a run call reuses the executor of the carrier
\* found in its context if and only if that executor is a Transactor, and
\* then hands the operation that carrier without calling BeginTx; when the
\* executor is the pool or no carrier is found it begins a new transaction
\* and hands the operation a fresh carrier around it; with force-new it
\* does so whatever the context carries.
C25_SingleReuseTest ==
    \A c \in Known :
        /\ (~c.opts.AlwaysCreate /\ IsTransactor(c.ctxExec)) =>
               /\ ~c.createdTx /\ NBegin(c) = 0 /\ c.invoked
               /\ c.tx = c.ctxExec /\ c.dbCtx = FromContext(c.ctx)
        /\ (~c.opts.AlwaysCreate /\ ~IsTransactor(c.ctxExec)) => BeganNew(c)
        /\ c.opts.AlwaysCreate => BeganNew(c)
        /\ c.ctxExec = (IF FromContext(c.ctx) = Nil THEN NoExec
                        ELSE Executor(FromContext(c.ctx)))

\* While a call on a pool carrier runs its operation in a transaction it
\* began, a force-new call nested in a call that reused that transaction
\* runs its operation in another one.
C25_Witness ==
    \E c, d, e \in Frames :
        /\ c.ctxExec = DBExec /\ Is(c.ctx) /\ c.createdTx
        /\ d.parent = c.id /\ ~d.createdTx /\ d.tx = c.tx
        /\ e.parent = d.id /\ e.opts.AlwaysCreate /\ e.ctxExec = c.tx /\ e.tx # c.tx

\* C26: a run call calls BeginTx at most once; when it begins a
\* transaction, BeginTx received the context passed to run and the isolation
\* level and read-only flag its options give (the last option that sets the
\* field; default isolation and read-write when none does).
C26_OptionsReachBegin ==
    \A c \in Known :
        /\ NBegin(c) <= 1
        /\ NBegin(c) = 1 <=> c.createdTx
        /\ (c.createdTx /\ c.invoked) =>
               /\ txs[c.tx.id].ctx = c.ctx
               /\ txs[c.tx.id].Isolation = LastWriterWins(c.setters).Isolation
               /\ txs[c.tx.id].ReadOnly = LastWriterWins(c.setters).ReadOnly
               /\ c.setters = << >> =>
                      (txs[c.tx.id].Isolation = LevelDefault /\ ~txs[c.tx.id].ReadOnly)

\* A call with three options began a read-committed read-write transaction
\* on the plain context, and a force-new call nested in it began one of
\* default isolation on the carrier of the outer operation.
C26_Witness ==
    \E c, d \in Known :
        /\ c.createdTx /\ Len(c.setters) = 3 /\ c.invoked
        /\ txs[c.tx.id].Isolation = LevelReadCommitted /\ ~txs[c.tx.id].ReadOnly
        /\ txs[c.tx.id].ctx = Background
        /\ d.parent = c.id /\ d.createdTx /\ d.opts.AlwaysCreate /\ d.invoked
        /\ txs[d.tx.id].Isolation = LevelDefault /\ ~txs[d.tx.id].ReadOnly
        /\ txs[d.tx.id].ctx = c.dbCtx /\ d.tx # c.tx

\* C30: a run call without force-new on a carrier that exposes a
\* transaction reuses it whatever isolation level and read-only flag its
\* options give: it calls BeginTx never, its operation gets the carrier of
\* the existing transaction, and that transaction keeps the options its
\* owner began it with.
C30_OptionsIgnoredOnReuse ==
    /\ \A c \in Known :
           (~c.opts.AlwaysCreate /\ IsTransactor(c.ctxExec)) =>
               /\ ~c.createdTx /\ NBegin(c) = 0
               /\ c.tx = c.ctxExec /\ Executor(c.dbCtx) = c.ctxExec
               /\ IssuedOn(c.tx.id, {"begin"}) # {} =>
                      \A p \in IssuedOn(c.tx.id, {"begin"}) : trace[p].call # c.id
    /\ \A d \in Frames :
           d.createdTx =>
               /\ txs[d.tx.id].ReadOnly = d.opts.ReadOnly
               /\ txs[d.tx.id].Isolation = d.opts.Isolation
    /\ Len(txs) <= ncalls

\* A nested call with WithReadOnly(true) executes a statement in the
\* read-write, read-committed transaction of the enclosing call.
C30_Witness ==
    \E c, d \in Frames :
        /\ d.parent = c.id /\ c.createdTx /\ ~d.createdTx /\ d.tx = c.tx
        /\ d.opts.ReadOnly /\ ~txs[d.tx.id].ReadOnly
        /\ d.opts.Isolation # txs[d.tx.id].Isolation
        /\ \E p \in IssuedBy(d, "exec") : trace[p].tx = c.tx.id

\* What holds of the terminal calls of call c in a state.
OneTerminal(c) ==
    /\ (c.createdTx /\ c.invoked /\ c.state = "returned") =>
           /\ NCommit(c) + NRollback(c) = 1
           /\ txs[c.tx.id].commits + txs[c.tx.id].rollbacks = 1
           /\ txs[c.tx.id].done
           /\ IssuedOn(c.tx.id, Terminal) = IssuedBy(c, "commit") \cup IssuedBy(c, "rollback")
           /\ trace[Len(trace)].kind \in Terminal /\ trace[Len(trace)].call = c.id
           /\ c.commitErr # NoErr => (NRollback(c) = 0 /\ txs[c.tx.id].rollbacks = 0)
    /\ (c.state = "returned" /\ ~c.invoked) =>
           /\ c.beginErr # NoErr /\ c.tx = NoExec
           /\ NCommit(c) = 0 /\ NRollback(c) = 0
           /\ \A p \in 1..Len(trace) : trace[p].kind \notin Terminal
    /\ (c.createdTx /\ c.state = "op") =>
           (IssuedOn(c.tx.id, Terminal) = {} /\ ~txs[c.tx.id].done)

\* C27: a run call that began a transaction and returns has issued exactly
\* one terminal call on it, Commit or Rollback, as its last call, and no
\* Rollback after a failed Commit; a call whose BeginTx failed issues none;
\* and a call whose operation was invoked ends: the operation returns and
\* run returns after one terminal call, or the operation panics.
C27_ExactlyOneTerminal ==
    /\ [](\A c \in Known : OneTerminal(c))
    /\ \A t \in Threads :
           (stack[t] # << >>) ~>
               (stack[t] = << >> /\ last.state \in {"returned", "panicked"}
                   /\ OneTerminal(last))

\* A call executed statements, its operation returned no error and its
\* Commit failed: one Commit and no Rollback were issued.
C27_Witness ==
    /\ last.state = "returned" /\ last.invoked /\ last.createdTx
    /\ last.commitErr \in CommitErrs /\ last.retErr = last.commitErr
    /\ txs[last.tx.id].commits = 1 /\ txs[last.tx.id].rollbacks = 0
    /\ Len(trace) >= 3 /\ trace[Len(trace)].kind = "commit"
    /\ trace[Len(trace) - 1].kind = "exec"

\* The step invokes the operation of a run call on thread of control t.
Invokes(t) == Len(stack'[t]) > Len(stack[t])

\* The call whose operation the step invokes.
Invoked(t) == stack'[t][Len(stack'[t])]

\* C28 (as stated): every time run invokes an operation, the transaction
\* exposed by the carrier it passes has been begun and is neither committed
\* nor rolled back, whatever context the caller supplied.
C28_Original ==
    [][\A t \in Threads :
          Invokes(t) =>
              LET e == Executor(Invoked(t).dbCtx) IN
              /\ IsTransactor(e) /\ e.id \in 1..Len(txs')
              /\ ~txs'[e.id].done]_vars

\* C28 (amended): every time run invokes an operation, the carrier it
\* passes exposes a transaction that has been begun; the transaction is
\* open when this call began it or when the carrier found in the context
\* exposed an open one; when the carrier found exposes a transaction that
\* was committed or rolled back already (a carrier kept from a call that
\* has ended), run reuses it and the operation is invoked on the finished
\* transaction.
C28_OpenAtInvocation ==
    [][\A t \in Threads :
          Invokes(t) =>
              LET c == Invoked(t)
                  e == Executor(c.dbCtx)
              IN
              /\ IsTransactor(e) /\ e.id \in 1..Len(txs') /\ e = c.tx
              /\ c.createdTx => (e.id = Len(txs) + 1 /\ ~txs'[e.id].done)
              /\ (~c.opts.AlwaysCreate /\ IsTransactor(c.ctxExec)) =>
                     /\ ~c.createdTx /\ e = c.ctxExec /\ e.id \in 1..Len(txs)
                     /\ txs'[e.id].done = txs[e.id].done
                     /\ c.ctxOpen = ~txs[e.id].done]_vars

\* The operation of a call made on the carrier kept from a call that has
\* returned runs on the transaction that call committed.
C28_Witness ==
    \E c \in Frames :
        /\ ~c.createdTx /\ ~c.ctxOpen /\ c.state = "op" /\ c.depth = 1
        /\ c.tx = c.ctxExec /\ Executor(c.dbCtx) = c.tx /\ txs[c.tx.id].done

\* The cancellations and expired deadlines that can have happened on ctx.
Firings(ctx) ==
    SUBSET { [id |-> ctx[p].id, err |-> Canceled] :
             p \in { q \in 1..Len(ctx) : ctx[q].kind \in {"cancel", "deadline"} } }

\* Carrier d reflects context ctx: same deadline, same cancellation signal
\* and error whatever has fired, same values for the caller's keys.
Reflects(d, ctx) ==
    /\ Deadline(d) = Deadline(ctx)
    /\ \A f \in Firings(ctx) : Done(d, f) = Done(ctx, f) /\ Err(d, f) = Err(ctx, f)
    /\ \A k \in {UserKey, "nonexistent-key"} : Value(d, k) = Value(ctx, k)

\* C29: the carrier handed to the operation of a run call reflects the
\* context passed to that call (deadline, cancellation, values), when the
\* call created its transaction and when it reused the transaction of a
\* carrier embedded in the context with WithContext.
C29_ContextPropagation ==
    \A c \in Known : c.invoked => Reflects(c.dbCtx, c.ctx)

\* Call c is made without force-new on the carrier handed to the operation
\* of p, a force-new call that is itself nested in another call.
InForceNew(c, p) ==
    /\ c.parent = p.id /\ p.parent # 0
    /\ p.opts.AlwaysCreate /\ p.createdTx
    /\ ~c.opts.AlwaysCreate /\ c.ctx = p.dbCtx

\* C31: a run call without force-new made inside the operation of a
\* force-new call, on the carrier of that operation, reuses the force-new
\* call's transaction and not the one of the call around it; it issues no
\* BeginTx, Commit or Rollback; its statements go to the force-new call's
\* transaction, whose terminal call comes after them and from its owner.
C31_InnermostWins ==
    /\ \A c \in Known : \A p \in Frames :
           InForceNew(c, p) =>
               /\ ~c.createdTx /\ c.tx = p.tx /\ Executor(c.dbCtx) = p.tx
               /\ \A g \in Frames : g.id = p.parent => c.tx # g.tx
               /\ NBegin(c) = 0 /\ NCommit(c) = 0 /\ NRollback(c) = 0
               /\ \A q \in IssuedBy(c, "exec") : trace[q].tx = p.tx.id
               /\ IssuedOn(p.tx.id, Terminal) = {}
    /\ \A q \in 1..Len(trace) :
           trace[q].kind \in Terminal =>
               /\ trace[q].call = txs[trace[q].tx].owner
               /\ \A r \in 1..Len(trace) :
                      (trace[r].kind = "exec" /\ trace[r].tx = trace[q].tx) => r < q

\* A statement executed by a reusing call inside a force-new call nested in
\* an open transaction was committed by the force-new call.
C31_Witness ==
    \E q, r \in 1..Len(trace) :
        /\ q < r /\ trace[q].kind = "exec" /\ trace[r].kind = "commit"
        /\ trace[q].tx = trace[r].tx
        /\ txs[trace[q].tx].forced /\ txs[trace[q].tx].within # 0
        /\ trace[q].call # txs[trace[q].tx].owner
        /\ trace[r].call = txs[trace[q].tx].owner
        /\ ~txs[txs[trace[q].tx].within].done

\* C32: the terminal call of an owned transaction follows from the result
\* of the owner's own operation alone.  While the owner's operation runs
\* the transaction gets no terminal call, also after a nested call that
\* reused it has failed; when the owner's operation then returns no error,
\* the owner issues Commit and no Rollback and run returns what Commit
\* returns; only when it returns an error is the transaction rolled back.
C32_SwallowedNestedFailure ==
    /\ \A c \in Frames :
           c.createdTx => (IssuedOn(c.tx.id, Terminal) = {} /\ ~txs[c.tx.id].done)
    /\ (last.state = "returned" /\ last.invoked /\ last.createdTx) =>
           /\ last.opErr = NoErr =>
                  /\ NCommit(last) = 1
                  /\ IssuedOn(last.tx.id, {"commit"}) = IssuedBy(last, "commit")
                  /\ IssuedOn(last.tx.id, {"rollback"}) = {}
                  /\ txs[last.tx.id].commits = 1 /\ txs[last.tx.id].rollbacks = 0
                  /\ last.retErr = last.commitErr
                  /\ last.commitErr = NoErr => last.retVal = last.opVal
           /\ last.opErr # NoErr =>
                  /\ NRollback(last) = 1
                  /\ IssuedOn(last.tx.id, {"commit"}) = {}
                  /\ txs[last.tx.id].commits = 0

\* The only nested call, which reused the transaction and executed a
\* statement, failed; the owner's operation returned no error and the
\* owner committed.
C32_Witness ==
    /\ last.state = "returned" /\ last.createdTx /\ last.depth = 1
    /\ tree.n = 2 /\ last.sub \in OpErrs /\ last.opErr = NoErr
    /\ last.retErr = NoErr /\ txs[last.tx.id].commits = 1
    /\ Len(txs) = 1
    /\ \E q \in 1..Len(trace) :
           /\ trace[q].kind = "exec" /\ trace[q].call # last.id
           /\ trace[q].tx = last.tx.id
    /\ trace[Len(trace)] = Event("commit", last.tx.id, last.id, NoErr)

\* C33: run calls made without force-new on one transaction carrier, from
\* whatever thread of control and however they interleave, all reuse the
\* transaction of that carrier and get that same carrier for their
\* operation; none of them issues BeginTx, Commit or Rollback; the terminal
\* call comes from the owner alone, and nothing in a reusing call keeps a
\* transaction open (a reusing call may still run when it is ended).
C33_SharedCarrier ==
    /\ \A c \in Known :
           (~c.opts.AlwaysCreate /\ IsTransactor(c.ctxExec)) =>
               /\ ~c.createdTx /\ c.tx = c.ctxExec
               /\ c.dbCtx = c.ctx /\ Executor(c.dbCtx) = c.tx
               /\ NBegin(c) = 0 /\ NCommit(c) = 0 /\ NRollback(c) = 0
    /\ \A c, d \in Frames : (c.ctx = d.ctx /\ Is(c.ctx)) => c.tx = d.tx
    /\ \A q \in 1..Len(trace) :
           trace[q].kind \in Terminal =>
               /\ trace[q].call = txs[trace[q].tx].owner
               /\ txs[trace[q].tx].ownerState = "returned"
    /\ \A n \in 1..Len(txs) :
           txs[n].owner # 0 => (txs[n].done <=> IssuedOn(n, Terminal) # {})

\* Statements of two reusing calls on different threads of control were
\* interleaved on one transaction, and the owner has committed it while
\* one of the two is still running its operation.
C33_Witness ==
    \E d \in { stack[2][k] : k \in 1..Len(stack[2]) } :
        /\ last.state = "returned" /\ last.createdTx /\ stack[1] = << >>
        /\ ~d.createdTx /\ d.tx = last.tx /\ d.state = "op" /\ txs[d.tx.id].done
        /\ \E q1, q2, q3 \in 1..Len(trace) :
               /\ q1 < q2 /\ q2 < q3
               /\ trace[q1].kind = "exec" /\ trace[q2].kind = "exec"
               /\ trace[q3].kind = "exec"
               /\ trace[q1].call = trace[q3].call /\ trace[q2].call = d.id
               /\ trace[q1].call \notin {d.id, last.id}
               /\ trace[q1].tx = last.tx.id /\ trace[q2].tx = last.tx.id
               /\ trace[q3].tx = last.tx.id
        /\ trace[Len(trace)] = Event("commit", last.tx.id, last.id, NoErr)

\* WithNewTransaction occurs in the option sequence.
HasForceNew(seq) == \E p \in 1..Len(seq) : seq[p] = WithNewTransaction

\* seq with option s put in before position k.
InsertAt(seq, k, s) == SubSeq(seq, 1, k - 1) \o <<s>> \o SubSeq(seq, k, Len(seq))

\* C34: the force-new flag newOptions gives is true exactly when
\* WithNewTransaction occurs in the option sequence: it is false for no
\* option, WithNewTransaction sets it at whatever position it is put, and
\* an option that follows (WithIsolationLevel, WithReadOnly, a second
\* WithNewTransaction) leaves it as it is.
C34_ForceNewMonotone ==
    /\ ~newOptions(<< >>).AlwaysCreate
    /\ newOptions(oseq).AlwaysCreate <=> HasForceNew(oseq)
    /\ \A k \in 1..(Len(oseq) + 1) :
           newOptions(InsertAt(oseq, k, WithNewTransaction)).AlwaysCreate
    /\ \A s \in Setters \ {WithNewTransaction} :
           \A k \in 1..(Len(oseq) + 1) :
               newOptions(InsertAt(oseq, k, s)).AlwaysCreate
                   = newOptions(oseq).AlwaysCreate
    /\ built.fresh => (built.opts.AlwaysCreate <=> HasForceNew(built.setters))

\* A call passed WithNewTransaction first and two other options after it,
\* the last one WithReadOnly(false): the flag is set.
C34_Witness ==
    /\ built.fresh /\ Len(built.setters) = 3
    /\ built.setters[1] = WithNewTransaction
    /\ built.setters[2].opt = "Isolation"
    /\ built.setters[3] = WithReadOnly(FALSE)
    /\ built.opts.AlwaysCreate /\ ~built.prev.AlwaysCreate

\* The kinds of the calls run call id issued on the beginner and on its
\* transaction, in order, as recorded in tr.
CallsOf(tr, id) ==
    LET s == SelectSeq(tr, LAMBDA e : e.call = id)
    IN [p \in 1..Len(s) |-> s[p].kind]

\* Run calls c and d were given the same context, beginner and options,
\* BeginTx, the operation and the terminal call gave them the same errors,
\* and the operation of d returned an empty result.
SameInputs(c, d) ==
    /\ c.ctx = d.ctx /\ c.beginner = d.beginner /\ c.setters = d.setters
    /\ c.beginErr = d.beginErr /\ c.opErr = d.opErr
    /\ c.commitErr = d.commitErr /\ c.rollbackErr = d.rollbackErr
    /\ d.opVal = WrapOperation(d.opErr).out

\* C35: a call through Transaction issues the same begin / operation /
\* commit / rollback calls and returns the same error as a call through
\* TransactionWithResult given the same context, beginner and options,
\* whose operation returns the same error next to an empty result; only
\* the returned value sets them apart: the first returns none, the second
\* the empty one.
C35_EntryPointEquivalence ==
    [][ LET c == last
            d == last'
            \* d is a call of the second thread of control that returns in
            \* this step, c the call of the first that returned before it
            second == \/ stack[2] # << >> /\ stack'[2] = << >>
                      \/ /\ stack[2] = << >> /\ stack'[2] = << >>
                         /\ stack[1] # << >> /\ ncalls' # ncalls
                         /\ d.parent = 0 /\ c.parent # 0
        IN (/\ second
            /\ c.state = "returned" /\ d.state = "returned"
            /\ SameInputs(c, d))
           => /\ CallsOf(trace', c.id) = CallsOf(trace', d.id)
              /\ c.invoked = d.invoked
              /\ TransactionReturns(c).err = TransactionWithResultReturns(d).err
              /\ DOMAIN TransactionReturns(c) = {"err"}
              /\ TransactionWithResultReturns(d).val = Zero ]_vars

\* Inside the operation of a call of the first thread of control a
\* force-new call through Transaction failed and was rolled back; the
\* second thread of control made the same call on the same carrier through
\* TransactionWithResult, and it failed and was rolled back as well.
C35_Witness ==
    /\ stack[1] # << >> /\ stack[2] = << >>
    /\ last.state = "returned" /\ last.id = 3 /\ last.parent = 0
    /\ last.ctx = stack[1][1].dbCtx /\ last.opts.AlwaysCreate
    /\ last.retErr \in OpErrs /\ last.opVal = Zero
    /\ CallsOf(trace, 2) = <<"begin", "rollback">>
    /\ CallsOf(trace, 3) = <<"begin", "rollback">>

\* What the current routine (transaction.go) makes of the inputs and
\* outcomes of ended call c: the calls it issues, in order, and what it
\* returns.
CurrentRoutine(c) ==
    LET created == CreatedTx(c.opts, c.ctx, CarrierId(c.id))
        r == FinishRun(created, c.opVal, c.opErr, c.commitErr, c.rollbackErr)
    IN IF created /\ c.beginErr # NoErr
       THEN [calls |-> <<"begin">>, invoked |-> FALSE,
             val |-> BeginFailed(c.beginErr).val, err |-> BeginFailed(c.beginErr).err]
       ELSE [calls |-> (IF created THEN <<"begin">> ELSE << >>)
                       \o (IF r.rollback THEN <<"rollback">> ELSE << >>)
                       \o (IF r.commit THEN <<"commit">> ELSE << >>),
             invoked |-> TRUE, val |-> r.val, err |-> r.err]

\* C36: in the revision of helpers.go, a call whose context is not the
\* concrete carrier returns the zero value and ErrInvalidContext and
\* neither begins a transaction, nor invokes the operation, nor commits
\* or rolls back; a call whose context is the concrete carrier begins or
\* reuses, commits and rolls back, and returns as the current routine
\* does on the same context, options and outcomes.
C36_InvalidContext ==
    /\ \A c \in Frames : AsDefaultContext(c.ctx).ok /\ c.invoked
    /\ (last.state = "returned" /\ ~AsDefaultContext(last.ctx).ok) =>
           /\ last.retVal = Zero /\ last.retErr = ErrInvalidContext
           /\ ~last.invoked /\ ~last.createdTx
           /\ CallsOf(trace, last.id) = << >>
           /\ \A i \in 1..Len(txs) : txs[i].owner # last.id
    /\ \A c \in Frames \cup {last} :
           (c.state # "none" /\ AsDefaultContext(c.ctx).ok) =>
              /\ c.createdTx = CreatedTx(c.opts, c.ctx, CarrierId(c.id))
              /\ ~c.createdTx => c.tx = ResolveTx(c.opts, c.ctx, CarrierId(c.id))
              /\ (c.invoked /\ ~c.createdTx) => Executor(c.dbCtx) = Executor(c.ctx)
    /\ (last.state = "returned" /\ AsDefaultContext(last.ctx).ok) =>
           /\ CallsOf(trace, last.id) = CurrentRoutine(last).calls
           /\ last.invoked = CurrentRoutine(last).invoked
           /\ last.retVal = CurrentRoutine(last).val
           /\ last.retErr = CurrentRoutine(last).err

\* Inside an operation that runs in a transaction, a force-new call on
\* the operation's carrier wrapped in another type was turned down.
C36_Witness ==
    /\ stack[1] # << >> /\ Top(1).createdTx
    /\ last.state = "returned" /\ last.retErr = ErrInvalidContext
    /\ last.ctx = OtherContext(Top(1).dbCtx) /\ last.opts.AlwaysCreate
    /\ last.parent = Top(1).id
    /\ CallsOf(trace, Top(1).id) = <<"begin">> /\ Len(trace) = 1

====
